---- MODULE Spec2Model ----
(***************************************************************************)
(* Session and transaction state machine of ghidralldb/commands.py.        *)
(*                                                                         *)
(* The session is the module-level singleton STATE (class State): the      *)
(* fields client, trace and tx, plus the lldb convenience variable         *)
(* _ghidra_tracing.  Every `ghidra trace ...` command is a handler wrapped *)
(* by convert_errors, so an exception raised inside a handler ends the     *)
(* handler and becomes the error text of its result.                       *)
(*                                                                         *)
(* A handler is written as an operator on an execution context             *)
(*   x = [client, trace, tx, tracing, calls, err]                          *)
(* where calls is the sequence of calls the handler has issued so far (to  *)
(* the remote store, to the socket layer, and to the convenience-variable  *)
(* store) and err is the message of the exception that ended the handler   *)
(* ("" while none has been raised).  Every step of a handler is skipped    *)
(* once err is set: that is the propagation of the Python exception.       *)
(***************************************************************************)
EXTENDS Integers, Sequences, FiniteSets, TLC

None == 0

\* Bounds of the model: handles ever created, nesting of tx-open, arguments.
MaxClients == 2
MaxTraces == 2
MaxTx == 3
MaxNest == 2
MaxArgs == 4

VARIABLES
    client,     \* STATE.client: None or the handle of the connection
    trace,      \* STATE.trace: None or the handle of the trace
    tx,         \* STATE.tx: None or the handle of the tracked transaction
    tracing,    \* convenience variable _ghidra_tracing ("true"/"false")
    nclients,   \* number of Client objects created so far
    ntraces,    \* number of remote traces created so far
    ntx,        \* number of transactions opened at the store so far
    stack,      \* open_tracked_tx contexts whose body has not finished
    last        \* the handler step that ran last, with its inputs and result

vars == <<client, trace, tx, tracing, nclients, ntraces, ntx, stack, last>>

\* State of the specifications of the pure helpers of the module: the inputs
\* a helper is applied to and the value it returned.
VARIABLES
    qstart,     \* quantize_pages: the argument start
    qend,       \* quantize_pages: the argument end
    qres,       \* quantize_pages: the returned pair, <<>> before the call
    ent,        \* path patterns: the entity whose path is built
    path        \* path patterns: the formatted path, "" before the call

quantVars == <<qstart, qend, qres>>

pathVars == <<ent, path>>

\* State of the specification of the tree synchronizers: the debugger host
\* they read, the object tree of the trace they write, and the passes made.
VARIABLES
    host,       \* what the debugger reports: process, selected thread, mapper
                \* space and the live entities in enumeration order
    tree,       \* the values of the trace's object tree at the current snap
    hist,       \* the last two passes: routine, inputs, calls, tree after
    npass       \* number of passes made so far

syncVars == <<host, tree, hist, npass>>

\* State of the specification of the codec and utility helpers: one call of
\* a helper, its arguments and what it returned or raised.
VARIABLES
    arg,        \* the helper called and the arguments of the call
    ret         \* the outcome of the call, NoRet before the call

helperVars == <<arg, ret>>

Session(x) ==
    [client |-> x.client, trace |-> x.trace, tx |-> x.tx, tracing |-> x.tracing]

Cur ==
    [client |-> client, trace |-> trace, tx |-> tx, tracing |-> tracing,
     calls |-> <<>>, err |-> ""]

----------------------------------------------------------------------------
(* Exceptions and calls *)

\* `raise RuntimeError(msg)`: the first exception ends the handler.
Raise(x, msg) == IF x.err = "" THEN [x EXCEPT !.err = msg] ELSE x

\* A call that is issued (and returns).
Call(x, op, id) ==
    IF x.err = "" THEN [x EXCEPT !.calls = Append(@, [op |-> op, id |-> id])]
    ELSE x

\* A call to a collaborator (remote store, socket, file system): it is
\* either issued, or it raises because of an I/O error.
Remote(x, op, id, fails) ==
    IF fails THEN Raise(x, "IOError") ELSE Call(x, op, id)

\* convert_errors around a handler invoked from inside another handler: the
\* exception is written to the result and does not propagate to the caller.
convert_errors(x) == [x EXCEPT !.err = ""]

Count(cs, op) == Cardinality({i \in 1..Len(cs) : cs[i].op = op})

Has(cs, op) == \E i \in 1..Len(cs) : cs[i].op = op

IndexOf(cs, op) == CHOOSE i \in 1..Len(cs) : cs[i].op = op

----------------------------------------------------------------------------
(* class State *)

require_client(x) ==
    IF x.err = "" /\ x.client = None THEN Raise(x, "Not connected") ELSE x

\* Fault: the connection check never raises.
require_no_client_never_raises(x) == x

require_no_client(x) ==
    IF x.err = "" /\ x.client # None THEN Raise(x, "Already connected") ELSE x

require_trace(x) ==
    IF x.err = "" /\ x.trace = None THEN Raise(x, "No trace active") ELSE x

\* Fault: the trace check never raises.
require_no_trace_never_raises(x) == x

require_no_trace(x) ==
    IF x.err = "" /\ x.trace # None THEN Raise(x, "Trace already started")
    ELSE x

require_tx(x) ==
    LET a == require_trace(x)
    IN  IF a.err = "" /\ a.tx = None THEN Raise(a, "No transaction") ELSE a

\* Fault: the transaction check never raises.
require_no_tx_never_raises(x) == x

require_no_tx(x) ==
    IF x.err = "" /\ x.tx # None THEN Raise(x, "Transaction already started")
    ELSE x

reset_tx(x) == IF x.err = "" THEN [x EXCEPT !.tx = None] ELSE x

\* Fault: reset_trace forgets reset_tx.
reset_trace_without_reset_tx(x) ==
    IF x.err = ""
    THEN Call([x EXCEPT !.trace = None, !.tracing = FALSE],
              "set_convenience_variable", 0)
    ELSE x

\* Fault: reset_trace leaves the _ghidra_tracing flag as it is.
reset_trace_keeps_flag(x) ==
    IF x.err = "" THEN reset_tx([x EXCEPT !.trace = None]) ELSE x

reset_trace(x) ==
    IF x.err = ""
    THEN reset_tx(Call([x EXCEPT !.trace = None, !.tracing = FALSE],
                       "set_convenience_variable", 0))
    ELSE x

\* Fault: reset_client forgets reset_trace.
reset_client_without_reset_trace(x) ==
    IF x.err = "" THEN [x EXCEPT !.client = None] ELSE x

reset_client(x) ==
    IF x.err = "" THEN reset_trace([x EXCEPT !.client = None]) ELSE x

----------------------------------------------------------------------------
(* Connection commands *)

\* fail: 0 none, 1 ADDRESS is not HOST:PORT, 2 the port is not numeric,
\*       3 the socket cannot connect.
ghidra_trace_connect(x, nargs, fail, cid) ==
    LET a == require_no_client(x)
        b == IF nargs # 1 THEN Raise(a, "Usage: ghidra trace connect ADDRESS")
             ELSE a
        c == IF fail = 1 THEN Raise(b, "ADDRESS must be HOST:PORT") ELSE b
        d == Call(c, "socket", 0)
        e == IF fail = 2 THEN Raise(d, "port must be numeric") ELSE d
        f == Remote(e, "socket_connect", 0, fail = 3)
        g == Call(f, "Client", cid)
    IN  IF g.err = "" THEN [g EXCEPT !.client = cid] ELSE g

\* fail: 0 none, 1 ADDRESS is not PORT or HOST:PORT (one argument only),
\*       2 the port is not numeric, 3 bind/listen/accept fails.
ghidra_trace_listen(x, nargs, fail, cid) ==
    LET a == IF nargs > 1 THEN Raise(x, "Usage: ghidra trace listen [ADDRESS]")
             ELSE IF nargs = 1 /\ fail = 1
                  THEN Raise(x, "ADDRESS must be PORT or HOST:PORT")
                  ELSE x
        b == require_no_client(a)
        c == Call(b, "socket", 0)
        d == IF nargs = 1 /\ fail = 2 THEN Raise(c, "PORT must be numeric")
             ELSE c
        e == Remote(d, "socket_accept", 0, fail = 3)
        f == Call(e, "Client", cid)
    IN  IF f.err = "" THEN [f EXCEPT !.client = cid] ELSE f

\* Client.close() closes the local socket; it is not a request to the peer.
ghidra_trace_disconnect(x, nargs) ==
    LET a == IF nargs # 0 THEN Raise(x, "Usage: ghidra trace disconnect")
             ELSE x
        b == require_client(a)
        c == Call(b, "close_client", b.client)
    IN  reset_client(c)

----------------------------------------------------------------------------
(* Trace commands *)

\* The exit of `with trace.open_tx(...)`: commit when the body returned,
\* abort when it raised (the exception then keeps propagating).
open_tx_exit(body, txid, fails) ==
    IF body.err = "" THEN Remote(body, "commit", txid, fails)
    ELSE [body EXCEPT !.calls = Append(@, [op |-> "abort", id |-> txid])]

\* Fault: the recording flag is set as soon as the remote trace exists.
start_trace_flag_first(x, fail, tid, txid) ==
    LET a == Remote(require_client(x), "create_trace", tid, fail = 1)
        b == IF a.err = ""
             THEN Call([a EXCEPT !.trace = tid, !.tracing = TRUE],
                       "set_convenience_variable", 1)
             ELSE a
        c == IF fail = 2 THEN Raise(b, "IOError") ELSE b
        d == Remote(c, "start_tx", txid, fail = 3)
        e1 == Remote(d, "create_root_object", 0, fail = 4)
        e2 == Remote(e1, "set_value", 0, fail = 5)
        e3 == Remote(e2, "create_object(Available)", 0, fail = 6)
        e4 == Remote(e3, "insert(Available)", 0, fail = 7)
        e5 == Remote(e4, "create_object(Processes)", 0, fail = 8)
        e6 == Remote(e5, "insert(Processes)", 0, fail = 9)
    IN  IF d.err = "" THEN open_tx_exit(e6, txid, fail = 10) ELSE d

\* fail: 0 none, 1 create_trace, 2 reading schema.xml, 3 open_tx,
\*       4 create_root_object, 5 set_value(_display), 6/7 create and insert
\*       Available, 8/9 create and insert Processes, 10 the commit on exit.
start_trace(x, fail, tid, txid) ==
    LET a == Remote(require_client(x), "create_trace", tid, fail = 1)
        b == IF a.err = "" THEN [a EXCEPT !.trace = tid] ELSE a
        c == IF fail = 2 THEN Raise(b, "IOError") ELSE b
        d == Remote(c, "start_tx", txid, fail = 3)
        e1 == Remote(d, "create_root_object", 0, fail = 4)
        e2 == Remote(e1, "set_value", 0, fail = 5)
        e3 == Remote(e2, "create_object(Available)", 0, fail = 6)
        e4 == Remote(e3, "insert(Available)", 0, fail = 7)
        e5 == Remote(e4, "create_object(Processes)", 0, fail = 8)
        e6 == Remote(e5, "insert(Processes)", 0, fail = 9)
        f == IF d.err = "" THEN open_tx_exit(e6, txid, fail = 10) ELSE d
    IN  IF f.err = ""
        THEN Call([f EXCEPT !.tracing = TRUE], "set_convenience_variable", 1)
        ELSE f

ghidra_trace_start(x, nargs, fail, tid, txid) ==
    LET a == IF nargs > 1 THEN Raise(x, "Usage: ghidra trace start [NAME]")
             ELSE x
        b == require_client(a)
        c == require_no_trace(b)
    IN  start_trace(c, fail, tid, txid)

\* Fault: stop closes the trace but forgets STATE.reset_trace().
ghidra_trace_stop_without_reset(x, nargs, fail) ==
    LET a == IF nargs # 0 THEN Raise(x, "Usage: ghidra trace stop") ELSE x
        b == require_trace(a)
    IN  Remote(b, "close_trace", b.trace, fail = 1)

\* fail: 0 none, 1 trace.close().
ghidra_trace_stop(x, nargs, fail) ==
    LET a == IF nargs # 0 THEN Raise(x, "Usage: ghidra trace stop") ELSE x
        b == require_trace(a)
        c == Remote(b, "close_trace", b.trace, fail = 1)
    IN  reset_trace(c)

\* Fault: restart closes the old trace but forgets STATE.reset_trace().
ghidra_trace_restart_without_reset(x, nargs, fail, tid, txid) ==
    LET a == IF nargs > 1 THEN Raise(x, "Usage: ghidra trace restart [NAME]")
             ELSE x
        b == require_client(a)
        c == IF b.err = "" /\ b.trace # None
             THEN Remote(b, "close_trace", b.trace, fail = 11)
             ELSE b
    IN  start_trace(c, fail, tid, txid)

\* fail: as start_trace, and 11 the trace.close() of the old trace.
ghidra_trace_restart(x, nargs, fail, tid, txid) ==
    LET a == IF nargs > 1 THEN Raise(x, "Usage: ghidra trace restart [NAME]")
             ELSE x
        b == require_client(a)
        c == IF b.err = "" /\ b.trace # None
             THEN reset_trace(Remote(b, "close_trace", b.trace, fail = 11))
             ELSE b
    IN  start_trace(c, fail, tid, txid)

----------------------------------------------------------------------------
(* Transaction commands *)

\* fail: 0 none, 1 start_tx.
ghidra_trace_txstart(x, nargs, fail, txid) ==
    LET a == IF nargs # 1
             THEN Raise(x, "Usage: ghidra trace tx-start DESCRIPTION")
             ELSE x
        b == require_no_tx(a)
        c == Remote(require_trace(b), "start_tx", txid, fail = 1)
    IN  IF c.err = "" THEN [c EXCEPT !.tx = txid] ELSE c

\* fail: 0 none, 1 commit.
ghidra_trace_txcommit(x, nargs, fail) ==
    LET a == IF nargs # 0 THEN Raise(x, "Usage: ghidra trace tx-commit") ELSE x
        b == require_tx(a)
        c == Remote(b, "commit", b.tx, fail = 1)
    IN  reset_tx(c)

\* Fault: tx-abort commits the transaction instead of aborting it.
ghidra_trace_txabort_commits(x, nargs, fail) ==
    LET a == IF nargs # 0 THEN Raise(x, "Usage: ghidra trace tx-abort") ELSE x
        b == require_tx(a)
        c == Remote(b, "commit", b.tx, fail = 1)
    IN  reset_tx(c)

\* fail: 0 none, 1 abort.
ghidra_trace_txabort(x, nargs, fail) ==
    LET a == IF nargs # 0 THEN Raise(x, "Usage: ghidra trace tx-abort") ELSE x
        b == require_tx(a)
        c == Remote(b, "abort", b.tx, fail = 1)
    IN  reset_tx(c)

\* open_tracked_tx up to its yield.  fail: 0 none, 1 open_tx.
open_tracked_tx(x, fail, txid) ==
    LET a == Remote(require_trace(x), "start_tx", txid, fail = 1)
    IN  IF a.err = "" THEN [a EXCEPT !.tx = txid] ELSE a

\* open_tracked_tx from its yield on: body is the context in which the body
\* of the with statement ended.  fail: 0 none, 1 the commit on exit.
open_tracked_tx_exit(body, fail, txid) ==
    reset_tx(open_tx_exit(body, txid, fail = 1))

\* ghidra_trace_txopen up to the nested HandleCommand.
ghidra_trace_txopen(x, nargs, fail, txid) ==
    LET a == IF nargs # 2
             THEN Raise(x, "Usage: ghidra trace tx-open DESCRIPTION COMMAND")
             ELSE x
    IN  open_tracked_tx(a, fail, txid)

----------------------------------------------------------------------------
(* Mutating commands.  In this specification the store work of a command   *)
(* body is one call named after the routine: it is either issued or it      *)
(* raises.  What concerns the session is the order of the argument checks   *)
(* and of the state preconditions before it.                                 *)

Body(x, op, fails) == Remote(x, op, x.trace, fails)

\* A handler invoked by another handler: it runs only if the caller is still
\* running, and its own convert_errors keeps its exception from the caller.
Nested(x, y) == IF x.err = "" THEN convert_errors(y) ELSE x

put_bytes(x, fails) == Body(require_trace(x), "put_bytes", fails)

ghidra_trace_putmem(x, nargs, fails) ==
    LET a == IF nargs \notin {2, 3}
             THEN Raise(x, "Usage: ghidra trace putmem ADDRESS LENGTH [PAGES]")
             ELSE x
    IN  put_bytes(require_tx(a), fails)

\* With two arguments the handler reads args[2]: IndexError.
ghidra_trace_putval(x, nargs, fails) ==
    LET a == IF nargs = 1 THEN x
             ELSE IF nargs = 2 THEN Raise(x, "list index out of range")
             ELSE Raise(x, "Usage: ghidra trace putval EXPRESSION [PAGES]")
    IN  put_bytes(require_tx(a), fails)

putmem_state(x, fails) == Body(require_trace(x), "set_memory_state", fails)

ghidra_trace_putmem_state(x, nargs, fails) ==
    LET a == IF nargs \notin {3, 4}
             THEN Raise(x, "Usage: ghidra trace putmem ADDRESS LENGTH STATE [PAGES]")
             ELSE x
    IN  putmem_state(require_tx(a), fails)

ghidra_trace_delmem(x, nargs, fails) ==
    LET a == require_trace(x)
        b == IF nargs # 2
             THEN Raise(a, "Usage: ghidra trace delmem ADDRESS LENGTH")
             ELSE a
    IN  Body(require_tx(b), "delete_bytes", fails)

putreg(x, fails) == Body(require_trace(x), "put_registers", fails)

ghidra_trace_putreg(x, nargs, fails) ==
    LET a == require_tx(x)
        b == IF nargs > 1 THEN Raise(a, "Usage: ghidra trace putreg [GROUP]")
             ELSE a
    IN  putreg(b, fails)

ghidra_trace_delreg(x, nargs, fails) ==
    LET a == IF nargs > 1 THEN Raise(x, "Usage: ghidra trace delreg [GROUP]")
             ELSE x
    IN  Body(require_tx(a), "delete_registers", fails)

ghidra_trace_create_obj(x, nargs, fails) ==
    LET a == IF nargs # 1 THEN Raise(x, "Usage: ghidra trace create-obj PATH")
             ELSE x
    IN  Body(Body(require_tx(a), "create_object", fails), "insert", FALSE)

ghidra_trace_insert_obj(x, nargs, fails) ==
    LET a == IF nargs # 1 THEN Raise(x, "Usage: ghidra trace insert-obj PATH")
             ELSE x
    IN  Body(require_tx(a), "insert", fails)

ghidra_trace_remove_obj(x, nargs, fails) ==
    LET a == IF nargs # 1 THEN Raise(x, "Usage: ghidra trace remove-obj PATH")
             ELSE x
    IN  Body(require_tx(a), "remove", fails)

ghidra_trace_set_value(x, nargs, fails) ==
    LET a == IF nargs \notin {3, 4}
             THEN Raise(x, "Usage: ghidra trace set-value PATH KEY VALUE [SCHEMA]")
             ELSE x
    IN  Body(require_tx(a), "set_value", fails)

ghidra_trace_retain_values(x, nargs, fails) ==
    LET a == IF nargs < 1
             THEN Raise(x, "Usage: ghidra trace retain-values [OPTIONS] PATH [KEYS...]")
             ELSE x
    IN  Body(require_tx(a), "retain_values", fails)

ghidra_trace_disassemble(x, nargs, fails) ==
    LET a == IF nargs # 1
             THEN Raise(x, "Usage: ghidra trace disassemble ADDRESS")
             ELSE x
    IN  Body(require_tx(a), "disassemble", fails)

put_processes(x, fails) == Body(require_trace(x), "put_processes", fails)

put_available(x, fails) == Body(require_trace(x), "put_available", fails)

put_breakpoints(x, fails) == Body(require_trace(x), "put_breakpoints", fails)

put_watchpoints(x, fails) == Body(require_trace(x), "put_watchpoints", fails)

put_environment(x, fails) == Body(require_trace(x), "put_environment", fails)

put_regions(x, fails) == Body(require_trace(x), "put_regions", fails)

put_modules(x, fails) == Body(require_trace(x), "put_modules", fails)

put_threads(x, fails) == Body(require_trace(x), "put_threads", fails)

put_frames(x, fails) == Body(require_trace(x), "put_frames", fails)

\* The prologue shared by every ghidra_trace_put_* handler: no argument is
\* accepted, then a transaction is required.
PutPrologue(x, nargs, usage) ==
    require_tx(IF nargs # 0 THEN Raise(x, usage) ELSE x)

ghidra_trace_put_processes(x, nargs, fails) ==
    put_processes(PutPrologue(x, nargs, "Usage: ghidra trace put-processes"),
                  fails)

ghidra_trace_put_available(x, nargs, fails) ==
    put_available(PutPrologue(x, nargs, "Usage: ghidra trace put-available"),
                  fails)

ghidra_trace_put_breakpoints(x, nargs, fails) ==
    put_breakpoints(PutPrologue(x, nargs,
                                "Usage: ghidra trace put-breakpoints"), fails)

ghidra_trace_put_watchpoints(x, nargs, fails) ==
    put_watchpoints(PutPrologue(x, nargs,
                                "Usage: ghidra trace put-watchpoints"), fails)

ghidra_trace_put_environment(x, nargs, fails) ==
    put_environment(PutPrologue(x, nargs,
                                "Usage: ghidra trace put-environment"), fails)

ghidra_trace_put_regions(x, nargs, fails) ==
    put_regions(PutPrologue(x, nargs, "Usage: ghidra trace put-regions"), fails)

ghidra_trace_put_modules(x, nargs, fails) ==
    put_modules(PutPrologue(x, nargs, "Usage: ghidra trace put-modules"), fails)

ghidra_trace_put_threads(x, nargs, fails) ==
    put_threads(PutPrologue(x, nargs, "Usage: ghidra trace put-threads"), fails)

ghidra_trace_put_frames(x, nargs, fails) ==
    put_frames(PutPrologue(x, nargs, "Usage: ghidra trace put-frames"), fails)

\* Number of words shlex.split finds in DEFAULT_REGISTER_BANK, which put-all
\* passes to ghidra_trace_putreg as its command line.
DefaultRegisterBankWords == 3

\* fail: 0 none, 1 the register put, 2 the $pc put, 3 the $sp put, 4..12 the
\*       synchronizers in the order they are called.
ghidra_trace_put_all(x, nargs, fail) ==
    LET a == PutPrologue(x, nargs, "Usage: ghidra trace put-all")
        b == Nested(a, ghidra_trace_putreg(a, DefaultRegisterBankWords,
                                           fail = 1))
        c == Nested(b, ghidra_trace_putmem(b, 2, fail = 2))
        d == Nested(c, ghidra_trace_putmem(c, 2, fail = 3))
        e == put_processes(d, fail = 4)
        f == put_environment(e, fail = 5)
        g == put_regions(f, fail = 6)
        h == put_modules(g, fail = 7)
        i == put_threads(h, fail = 8)
        j == put_frames(i, fail = 9)
        k == put_breakpoints(j, fail = 10)
        l == put_watchpoints(k, fail = 11)
    IN  put_available(l, fail = 12)

MutatingCommands ==
    {"putmem", "putval", "putmem-state", "delmem", "putreg", "delreg",
     "create-obj", "insert-obj", "remove-obj", "set-value", "retain-values",
     "disassemble", "put-processes", "put-available", "put-breakpoints",
     "put-watchpoints", "put-environment", "put-regions", "put-modules",
     "put-threads", "put-frames", "put-all"}

\* The command table registered with `command script add`.
HandleCommand(c, x, nargs, fail) ==
    CASE c = "putmem" -> ghidra_trace_putmem(x, nargs, fail = 1)
      [] c = "putval" -> ghidra_trace_putval(x, nargs, fail = 1)
      [] c = "putmem-state" -> ghidra_trace_putmem_state(x, nargs, fail = 1)
      [] c = "delmem" -> ghidra_trace_delmem(x, nargs, fail = 1)
      [] c = "putreg" -> ghidra_trace_putreg(x, nargs, fail = 1)
      [] c = "delreg" -> ghidra_trace_delreg(x, nargs, fail = 1)
      [] c = "create-obj" -> ghidra_trace_create_obj(x, nargs, fail = 1)
      [] c = "insert-obj" -> ghidra_trace_insert_obj(x, nargs, fail = 1)
      [] c = "remove-obj" -> ghidra_trace_remove_obj(x, nargs, fail = 1)
      [] c = "set-value" -> ghidra_trace_set_value(x, nargs, fail = 1)
      [] c = "retain-values" -> ghidra_trace_retain_values(x, nargs, fail = 1)
      [] c = "disassemble" -> ghidra_trace_disassemble(x, nargs, fail = 1)
      [] c = "put-processes" -> ghidra_trace_put_processes(x, nargs, fail = 1)
      [] c = "put-available" -> ghidra_trace_put_available(x, nargs, fail = 1)
      [] c = "put-breakpoints" ->
            ghidra_trace_put_breakpoints(x, nargs, fail = 1)
      [] c = "put-watchpoints" ->
            ghidra_trace_put_watchpoints(x, nargs, fail = 1)
      [] c = "put-environment" ->
            ghidra_trace_put_environment(x, nargs, fail = 1)
      [] c = "put-regions" -> ghidra_trace_put_regions(x, nargs, fail = 1)
      [] c = "put-modules" -> ghidra_trace_put_modules(x, nargs, fail = 1)
      [] c = "put-threads" -> ghidra_trace_put_threads(x, nargs, fail = 1)
      [] c = "put-frames" -> ghidra_trace_put_frames(x, nargs, fail = 1)
      [] c = "put-all" -> ghidra_trace_put_all(x, nargs, fail)

\* The argument counts the usage line of each command accepts.
ValidArity(c) ==
    CASE c \in {"connect", "tx-start", "create-obj", "insert-obj",
                "remove-obj", "disassemble"} -> {1}
      [] c \in {"listen", "start", "restart", "putreg", "delreg"} -> {0, 1}
      [] c \in {"putmem"} -> {2, 3}
      [] c \in {"putval"} -> {1, 2}
      [] c \in {"putmem-state", "set-value"} -> {3, 4}
      [] c \in {"delmem", "tx-open"} -> {2}
      [] c \in {"retain-values"} -> 1..(MaxArgs + 1)
      [] OTHER -> {0}

\* The argument counts a command is tried with: every count its usage line
\* accepts and the rejected counts up to one more than the largest of them
\* (the handlers compare the count with constants only).
ArgCounts(c) ==
    {n \in 0..MaxArgs : \E v \in ValidArity(c) : n <= v + 1}

----------------------------------------------------------------------------
(* The state machine.  A command runs at top level, or as the one command  *)
(* that ghidra_trace_txopen hands to the interpreter inside its            *)
(* open_tracked_tx context (the top frame of stack, in phase "body").      *)

\* The failure points of a mutating command: its body, or for put-all one of
\* its twelve steps.
FailCodes(c) == IF c = "put-all" THEN 0..12 ELSE 0..1

\* The helper specifications are not running.
QuantIdle == qstart = 0 /\ qend = 0 /\ qres = <<>>

NoEntity == [cat |-> "none", ids |-> <<>>, names |-> <<>>]

PathIdle == ent = NoEntity /\ path = ""

NoHost == [pid |-> 0, sel |-> None, mm |-> "", running |-> FALSE, live |-> <<>>]

SyncIdle == host = NoHost /\ tree = {} /\ hist = <<>> /\ npass = 0

NoArg == [fn |-> "none"]

NoRet == [done |-> FALSE]

HelperIdle == arg = NoArg /\ ret = NoRet

otherVars == <<quantVars, pathVars, syncVars, helperVars>>

\* What a helper specification leaves alone.
exceptQuant == <<vars, pathVars, syncVars, helperVars>>

exceptPath == <<vars, quantVars, syncVars, helperVars>>

exceptSync == <<vars, quantVars, pathVars, helperVars>>

exceptHelper == <<vars, quantVars, pathVars, syncVars>>

SessionInit ==
    /\ client = None
    /\ trace = None
    /\ tx = None
    /\ tracing = FALSE
    /\ nclients = 0
    /\ ntraces = 0
    /\ ntx = 0
    /\ stack = <<>>
    /\ last = [cmd |-> "init", phase |-> "done", nargs |-> 0, fail |-> 0,
               err |-> "",
               pre |-> [client |-> None, trace |-> None, tx |-> None,
                        tracing |-> FALSE],
               calls |-> <<>>]

Init == SessionInit /\ QuantIdle /\ PathIdle /\ SyncIdle /\ HelperIdle

CanRun == IF stack = <<>> THEN TRUE ELSE stack[Len(stack)].phase = "body"

\* The nested command of the innermost tx-open has run.
Ran(stk) ==
    IF stk = <<>> THEN stk
    ELSE [stk EXCEPT ![Len(stk)] = [@ EXCEPT !.phase = "ran"]]

Step(cmd, phase, nargs, fail, x, stk) ==
    /\ client' = x.client
    /\ trace' = x.trace
    /\ tx' = x.tx
    /\ tracing' = x.tracing
    /\ nclients' = nclients + Count(x.calls, "Client")
    /\ ntraces' = ntraces + Count(x.calls, "create_trace")
    /\ ntx' = ntx + Count(x.calls, "start_tx")
    /\ nclients' <= MaxClients
    /\ ntraces' <= MaxTraces
    /\ ntx' <= MaxTx
    /\ stack' = stk
    /\ UNCHANGED otherVars
    /\ last' = [cmd |-> cmd, phase |-> phase, nargs |-> nargs, fail |-> fail,
                err |-> x.err,
                pre |-> Session(Cur), calls |-> x.calls]

Connect ==
    /\ CanRun
    /\ \E nargs \in ArgCounts("connect"), fail \in 0..3 :
          Step("connect", "done", nargs, fail,
               ghidra_trace_connect(Cur, nargs, fail, nclients + 1), Ran(stack))

Listen ==
    /\ CanRun
    /\ \E nargs \in ArgCounts("listen"), fail \in 0..3 :
          Step("listen", "done", nargs, fail,
               ghidra_trace_listen(Cur, nargs, fail, nclients + 1), Ran(stack))

Disconnect ==
    /\ CanRun
    /\ \E nargs \in ArgCounts("disconnect") :
          Step("disconnect", "done", nargs, 0,
               ghidra_trace_disconnect(Cur, nargs), Ran(stack))

Start ==
    /\ CanRun
    /\ \E nargs \in ArgCounts("start"), fail \in 0..10 :
          Step("start", "done", nargs, fail,
               ghidra_trace_start(Cur, nargs, fail, ntraces + 1, ntx + 1),
               Ran(stack))

Stop ==
    /\ CanRun
    /\ \E nargs \in ArgCounts("stop"), fail \in 0..1 :
          Step("stop", "done", nargs, fail,
               ghidra_trace_stop(Cur, nargs, fail), Ran(stack))

Restart ==
    /\ CanRun
    /\ \E nargs \in ArgCounts("restart"), fail \in 0..11 :
          Step("restart", "done", nargs, fail,
               ghidra_trace_restart(Cur, nargs, fail, ntraces + 1, ntx + 1),
               Ran(stack))

TxStart ==
    /\ CanRun
    /\ \E nargs \in ArgCounts("tx-start"), fail \in 0..1 :
          Step("tx-start", "done", nargs, fail,
               ghidra_trace_txstart(Cur, nargs, fail, ntx + 1), Ran(stack))

TxCommit ==
    /\ CanRun
    /\ \E nargs \in ArgCounts("tx-commit"), fail \in 0..1 :
          Step("tx-commit", "done", nargs, fail,
               ghidra_trace_txcommit(Cur, nargs, fail), Ran(stack))

TxAbort ==
    /\ CanRun
    /\ \E nargs \in ArgCounts("tx-abort"), fail \in 0..1 :
          Step("tx-abort", "done", nargs, fail,
               ghidra_trace_txabort(Cur, nargs, fail), Ran(stack))

\* tx-open up to the point where the nested command is handed to the
\* interpreter.  If the context was entered a frame is pushed; otherwise the
\* handler is over.
TxOpenEnter ==
    /\ CanRun
    /\ Len(stack) < MaxNest
    /\ \E nargs \in ArgCounts("tx-open"), fail \in 0..1 :
          LET x == ghidra_trace_txopen(Cur, nargs, fail, ntx + 1)
          IN  Step("tx-open", IF x.err = "" THEN "enter" ELSE "done", nargs,
                   fail, x,
                   IF x.err = ""
                   THEN Append(stack, [tx |-> ntx + 1, phase |-> "body"])
                   ELSE Ran(stack))

\* The body of the innermost open_tracked_tx context ends, either normally
\* (the nested command has returned; its own errors were written to the
\* result) or with an exception, and the context is left.
TxOpenExit ==
    /\ stack # <<>>
    /\ \E raised \in BOOLEAN, fail \in 0..1 :
          LET fr == stack[Len(stack)]
              body == IF raised THEN Raise(Cur, "Exception") ELSE Cur
          IN  Step("tx-open", "exit", 2, fail,
                   open_tracked_tx_exit(body, fail, fr.tx),
                   Ran(SubSeq(stack, 1, Len(stack) - 1)))

Mutate ==
    /\ CanRun
    /\ \E c \in MutatingCommands :
          \E nargs \in ArgCounts(c), fail \in FailCodes(c) :
          Step(c, "done", nargs, fail, HandleCommand(c, Cur, nargs, fail),
               Ran(stack))

Next ==
    \/ Connect
    \/ Listen
    \/ Disconnect
    \/ Start
    \/ Stop
    \/ Restart
    \/ TxStart
    \/ TxCommit
    \/ TxAbort
    \/ TxOpenEnter
    \/ TxOpenExit
    \/ Mutate

Spec == Init /\ [][Next]_vars

TypeOK ==
    /\ client \in 0..MaxClients
    /\ trace \in 0..MaxTraces
    /\ tx \in 0..MaxTx
    /\ tracing \in BOOLEAN
    /\ Len(stack) <= MaxNest

----------------------------------------------------------------------------
(* Properties of the session state machine *)

\* The invocation recorded in last is well formed: the argument count is one
\* the usage line accepts and an address argument has the documented form.
WellFormed ==
    /\ last.nargs \in ValidArity(last.cmd)
    /\ last.cmd \in {"connect", "listen"} => last.fail \notin {1, 2}

Unchanged == Session(Cur) = last.pre

\* C1: in every reachable state, whatever commands ran and whether they
\* failed, a held transaction implies a held trace and a held trace implies
\* a held connection.
C1_StrictNesting ==
    /\ tx # None => trace # None
    /\ trace # None => client # None

\* A command has just failed while connection, trace and transaction are held.
C1_Witness ==
    /\ last.err # ""
    /\ tx # None /\ trace # None /\ client # None

\* C2: tx-start while a transaction is held fails with 'Transaction already
\* started', opens no transaction at the store and leaves the session as it
\* was.
C2_TxStartWhileHeld ==
    (last.cmd = "tx-start" /\ WellFormed /\ last.pre.tx # None)
        => /\ last.err = "Transaction already started"
           /\ last.calls = <<>>
           /\ Unchanged

C2_Witness ==
    /\ last.cmd = "tx-start" /\ WellFormed /\ last.pre.tx # None
    /\ stack = <<>>
    /\ last.err = "Transaction already started"
    /\ tx = last.pre.tx

\* C3: tx-open while a transaction is held fails with an
\* AlreadyInTransaction error, opens no second transaction at the store and
\* neither replaces nor clears the held transaction.
C3_TxOpenWhileHeld ==
    (last.cmd = "tx-open" /\ last.phase # "exit" /\ WellFormed
     /\ last.pre.tx # None)
        => /\ last.err = "Transaction already started"
           /\ ~Has(last.calls, "start_tx")
           /\ tx = last.pre.tx

\* C4: when open_tracked_tx is left, whether its body returned or raised,
\* the transaction it opened has been closed and the session holds no
\* transaction.  (An exit whose commit call itself failed is left aside.)
C4_TxOpenReleases ==
    (last.cmd = "tx-open" /\ last.phase = "exit" /\ last.err # "IOError")
        => /\ tx = None
           /\ Has(last.calls, "commit") \/ Has(last.calls, "abort")

\* C5: a well-formed mutating command invoked while no transaction is held
\* fails with 'No transaction' (or 'No trace active'), issues no call and
\* leaves the session as it was.
C5_MutatingRequiresTx ==
    (last.cmd \in MutatingCommands /\ WellFormed /\ last.pre.tx = None)
        => /\ last.err \in {"No transaction", "No trace active"}
           /\ last.calls = <<>>
           /\ Unchanged

\* C6: connect and listen with a connection held fail with 'Already
\* connected', create no socket and no client and change nothing; they
\* succeed only from Disconnected and then leave a new connection, no trace
\* and no transaction.
C6_ConnectListen ==
    last.cmd \in {"connect", "listen"}
        => /\ (WellFormed /\ last.pre.client # None)
                => /\ last.err = "Already connected"
                   /\ last.calls = <<>>
                   /\ Unchanged
           /\ last.err = ""
                => /\ last.pre.client = None
                   /\ client # None
                   /\ trace = None
                   /\ tx = None

C6_Witness ==
    /\ last.cmd \in {"connect", "listen"} /\ WellFormed
    /\ last.pre.trace # None
    /\ last.err = "Already connected"

C6_WitnessSuccess ==
    /\ last.cmd = "listen" /\ last.err = "" /\ client # None

\* C7: start fails with 'Not connected' when no connection is held and with
\* 'Trace already started' when a trace is held; no remote trace is created
\* and the session, the held trace and the recording flag included, is
\* unchanged.
C7_StartPreconditions ==
    (last.cmd = "start" /\ WellFormed)
        => /\ last.pre.client = None
                => /\ last.err = "Not connected"
                   /\ last.calls = <<>>
                   /\ Unchanged
           /\ (last.pre.client # None /\ last.pre.trace # None)
                => /\ last.err = "Trace already started"
                   /\ last.calls = <<>>
                   /\ Unchanged

C7_Witness ==
    /\ last.cmd = "start" /\ WellFormed
    /\ last.pre.trace # None /\ last.pre.tracing
    /\ last.err = "Trace already started"
    /\ tracing

\* The operations of a successful start, in the order C8 states them.
StartOrder ==
    <<"create_trace", "start_tx", "create_root_object", "insert(Available)",
      "insert(Processes)", "commit", "set_convenience_variable">>

\* C8: a successful start creates the remote trace, opens a transaction,
\* creates the root object, inserts Available, inserts Processes, closes the
\* transaction and only then sets the recording flag; on return the session
\* holds the new trace and no transaction.
C8_StartOrder ==
    (last.cmd = "start" /\ last.err = "")
        => /\ \A i \in 1..Len(StartOrder) : Count(last.calls, StartOrder[i]) = 1
           /\ \A i \in 1..(Len(StartOrder) - 1) :
                 IndexOf(last.calls, StartOrder[i])
                    < IndexOf(last.calls, StartOrder[i + 1])
           /\ last.calls[Len(last.calls)] =
                 [op |-> "set_convenience_variable", id |-> 1]
           /\ last.calls[IndexOf(last.calls, "create_trace")].id = trace
           /\ last.calls[IndexOf(last.calls, "commit")].id
                 = last.calls[IndexOf(last.calls, "start_tx")].id
           /\ trace # None
           /\ tx = None
           /\ tracing

C8_Witness ==
    /\ last.cmd = "start" /\ last.err = ""
    /\ trace # None /\ tracing

\* The context in which the command recorded in last started, and the fresh
\* handles that were available to it.
PreContext ==
    [client |-> last.pre.client, trace |-> last.pre.trace, tx |-> last.pre.tx,
     tracing |-> last.pre.tracing, calls |-> <<>>, err |-> ""]

PreTraces == ntraces - Count(last.calls, "create_trace")

PreTx == ntx - Count(last.calls, "start_tx")

\* C9: restart with a trace held closes that trace and clears trace,
\* transaction and recording flag before the new remote trace is created;
\* with no trace held it behaves exactly like start; without a connection it
\* fails with 'Not connected' and changes nothing.
C9_Restart ==
    (last.cmd = "restart" /\ WellFormed)
        => /\ last.pre.client = None
                => /\ last.err = "Not connected"
                   /\ last.calls = <<>>
                   /\ Unchanged
           /\ (last.pre.client # None /\ last.pre.trace = None)
                => LET s == ghidra_trace_start(PreContext, last.nargs,
                                               last.fail, PreTraces + 1,
                                               PreTx + 1)
                   IN  /\ Session(Cur) = Session(s)
                       /\ last.calls = s.calls
                       /\ last.err = s.err
           /\ (last.pre.client # None /\ last.pre.trace # None
               /\ last.fail = 11)
                => /\ ~Has(last.calls, "create_trace")
                   /\ last.err = "IOError"
           /\ (last.pre.client # None /\ last.pre.trace # None
               /\ last.fail # 11)
                => /\ last.calls[1] = [op |-> "close_trace",
                                       id |-> last.pre.trace]
                   /\ last.calls[2] = [op |-> "set_convenience_variable",
                                       id |-> 0]
                   /\ \A i \in 1..2 : last.calls[i].op # "create_trace"
                   /\ tx = None
                   /\ trace # last.pre.trace
                   /\ tracing <=> last.err = ""
                   /\ ~Has(last.calls, "create_trace")
                        => trace = None /\ ~tracing

\* restart replaced a held trace, with a transaction held, by a new one.
C9_Witness ==
    /\ last.cmd = "restart" /\ last.err = ""
    /\ last.pre.trace # None /\ last.pre.tx # None
    /\ trace \notin {None, last.pre.trace}

\* restart started a trace from the Connected state.
C9_WitnessLikeStart ==
    /\ last.cmd = "restart" /\ last.err = ""
    /\ last.pre.client # None /\ last.pre.trace = None
    /\ trace # None

\* C10: disconnect invoked in any session state ends with no connection, no
\* trace, no transaction and the recording flag false.
C10_DisconnectEndsDisconnected ==
    (last.cmd = "disconnect" /\ WellFormed)
        => /\ client = None
           /\ trace = None
           /\ tx = None
           /\ ~tracing

\* disconnect ran while connection, trace and transaction were held.
C10_Witness ==
    /\ last.cmd = "disconnect" /\ WellFormed
    /\ last.pre.tx # None /\ last.pre.tracing
    /\ client = None

\* Every call of the given operations comes before every call of op.
AllBefore(cs, ops, op) ==
    \A i, j \in 1..Len(cs) : (cs[i].op \in ops /\ cs[j].op = op) => i < j

\* C11: disconnect invoked while a trace and/or a transaction is held closes
\* the transaction and then the trace at the store before it closes the
\* connection.
C11_DisconnectClosesFirst ==
    (last.cmd = "disconnect" /\ WellFormed /\ last.pre.trace # None)
        => /\ Count(last.calls, "close_client") = 1
           /\ Count(last.calls, "close_trace") = 1
           /\ AllBefore(last.calls, {"close_trace"}, "close_client")
           /\ last.pre.tx # None
                => /\ Has(last.calls, "commit") \/ Has(last.calls, "abort")
                   /\ AllBefore(last.calls, {"commit", "abort"}, "close_trace")

C12_WitnessNoTrace ==
    /\ last.cmd = "stop" /\ WellFormed
    /\ last.pre.client # None /\ last.pre.trace = None
    /\ last.err = "No trace active"

\* The store operation that ends a transaction, per command.
TxEnd(cmd) == IF cmd = "tx-commit" THEN "commit" ELSE "abort"

C13_WitnessNoTx ==
    /\ last.cmd = "tx-commit" /\ WellFormed
    /\ last.pre.trace # None /\ last.pre.tx = None
    /\ last.err = "No transaction"

----------------------------------------------------------------------------
(* Page quantization *)

PAGE_SIZE == 4096

\* Fault: the end is rounded down to its page, like the start.
quantize_pages_end_floor(start, end) ==
    <<(start \div PAGE_SIZE) * PAGE_SIZE, (end \div PAGE_SIZE) * PAGE_SIZE>>

\* Fault: the end always moves to the next page, even when it is aligned.
quantize_pages_end_next_page(start, end) ==
    <<(start \div PAGE_SIZE) * PAGE_SIZE,
      (end \div PAGE_SIZE + 1) * PAGE_SIZE>>

\* Python // is floor division; the arguments are not negative.
quantize_pages(start, end) ==
    <<(start \div PAGE_SIZE) * PAGE_SIZE,
      ((end + PAGE_SIZE - 1) \div PAGE_SIZE) * PAGE_SIZE>>

\* Addresses lie in the pages 0..MaxPage.
MaxPage == 1

\* Lengths of the requested ranges: empty, one byte, around one page, and
\* the 4200 bytes from 4100 to 8300.
Lengths == {0, 1, PAGE_SIZE - 1, PAGE_SIZE, PAGE_SIZE + 104}

QuantInit ==
    /\ SessionInit
    /\ PathIdle
    /\ SyncIdle
    /\ HelperIdle
    /\ qstart \in 0..((MaxPage + 1) * PAGE_SIZE - 1)
    /\ qend \in {qstart + n : n \in Lengths}
    /\ qres = <<>>

\* put_bytes / putmem_state with pages: start, end = quantize_pages(start, end)
QuantizePages ==
    /\ qres = <<>>
    /\ qres' = quantize_pages(qstart, qend)
    /\ UNCHANGED <<qstart, qend, exceptQuant>>

\* The quantized range is requested again (a second putmem of the pages).
QuantizeAgain ==
    /\ qres # <<>>
    /\ <<qstart, qend>> # qres
    /\ qstart' = qres[1]
    /\ qend' = qres[2]
    /\ qres' = quantize_pages(qres[1], qres[2])
    /\ UNCHANGED exceptQuant

QuantNext ==
    \/ QuantizePages
    \/ QuantizeAgain

SpecQuantize == QuantInit /\ [][QuantNext]_<<vars, otherVars>>

\* C17: quantizing start = 4100, end = 8300 yields (4096, 8192).
C17_QuantizeExample ==
    (qstart = 4100 /\ qend = 8300 /\ qres # <<>>) => qres = <<4096, 8192>>

\* C17 as the code computes it: quantizing start = 4100, end = 8300 yields
\* (4096, 12288), the end being rounded up to the page boundary that
\* includes byte 8299.
C17_QuantizeExampleRoundsUp ==
    (qstart = 4100 /\ qend = 8300 /\ qres # <<>>) => qres = <<4096, 12288>>

C17_Witness ==
    qstart = 4100 /\ qend = 8300 /\ qres = <<4096, 12288>>

\* C18: for 0 <= start <= end the returned bounds are multiples of 4096 with
\* qs <= start < qs + 4096 and end <= qe < end + 4096, no page-aligned range
\* that includes the request is smaller, and a range that is already
\* quantized is returned unchanged.
C18_QuantizeBounds ==
    qres # <<>>
        => /\ qres[1] % PAGE_SIZE = 0
           /\ qres[2] % PAGE_SIZE = 0
           /\ qres[1] <= qstart /\ qstart < qres[1] + PAGE_SIZE
           /\ qend <= qres[2] /\ qres[2] < qend + PAGE_SIZE
           /\ \A k \in 0..(MaxPage + 3) :
                 /\ k * PAGE_SIZE <= qstart => k * PAGE_SIZE <= qres[1]
                 /\ k * PAGE_SIZE >= qend => k * PAGE_SIZE >= qres[2]
           /\ (qstart % PAGE_SIZE = 0 /\ qend % PAGE_SIZE = 0)
                => qres = <<qstart, qend>>

\* An unaligned range was quantized and the result quantized again.
C18_Witness ==
    /\ qres # <<>>
    /\ qstart = PAGE_SIZE /\ qend = 3 * PAGE_SIZE
    /\ qres = <<qstart, qend>>

\* A range whose end is aligned and whose start is not was quantized.
C18_WitnessAlignedEnd ==
    /\ qres # <<>>
    /\ qstart = PAGE_SIZE + 1 /\ qend = 2 * PAGE_SIZE
    /\ qres = <<PAGE_SIZE, 2 * PAGE_SIZE>>

----------------------------------------------------------------------------
(* Path patterns.  A pattern is a Python format string; it is written here  *)
(* as the operator that str.format computes, with the fields as            *)
(* parameters.  Paths are strings and are built by concatenation.           *)

Digits ==
    <<"0", "1", "2", "3", "4", "5", "6", "7", "8", "9",
      "a", "b", "c", "d", "e", "f">>

\* The digits of n >= 0 in base b, most significant first.
RECURSIVE ToBase(_, _)
ToBase(n, b) ==
    IF n < b THEN Digits[n + 1]
    ELSE ToBase(n \div b, b) \o Digits[(n % b) + 1]

\* '{n}': an integer field without format specification is decimal.
FormatInt(n) == ToBase(n, 10)

\* Zero padding on the left up to a minimum width.
RECURSIVE ZeroPad(_, _)
ZeroPad(str, width) ==
    IF Len(str) >= width THEN str ELSE ZeroPad("0" \o str, width)

\* '{n:08x}': lowercase hexadecimal, at least eight digits.
FormatHex08(n) == ZeroPad(ToBase(n, 16), 8)

AVAILABLES_PATH == "Available"

AVAILABLE_KEY_PATTERN(pid) == "[" \o FormatInt(pid) \o "]"

AVAILABLE_PATTERN(pid) == AVAILABLES_PATH \o AVAILABLE_KEY_PATTERN(pid)

BREAKPOINT_KEY_PATTERN(breaknum) == "[" \o FormatInt(breaknum) \o "]"

WATCHPOINT_KEY_PATTERN(watchnum) == "[" \o FormatInt(watchnum) \o "]"

BREAK_LOC_KEY_PATTERN(locnum) == "[" \o FormatInt(locnum) \o "]"

PROCESSES_PATH == "Processes"

PROCESS_KEY_PATTERN(procnum) == "[" \o FormatInt(procnum) \o "]"

PROCESS_PATTERN(procnum) == PROCESSES_PATH \o PROCESS_KEY_PATTERN(procnum)

PROC_WATCHES_PATTERN(procnum) == PROCESS_PATTERN(procnum) \o ".Watchpoints"

PROC_WATCH_PATTERN(procnum, watchnum) ==
    PROC_WATCHES_PATTERN(procnum) \o WATCHPOINT_KEY_PATTERN(watchnum)

PROC_BREAKS_PATTERN(procnum) == PROCESS_PATTERN(procnum) \o ".Breakpoints"

PROC_BREAK_PATTERN(procnum, breaknum) ==
    PROC_BREAKS_PATTERN(procnum) \o BREAKPOINT_KEY_PATTERN(breaknum)

ENV_PATTERN(procnum) == PROCESS_PATTERN(procnum) \o ".Environment"

THREADS_PATTERN(procnum) == PROCESS_PATTERN(procnum) \o ".Threads"

THREAD_KEY_PATTERN(tnum) == "[" \o FormatInt(tnum) \o "]"

THREAD_PATTERN(procnum, tnum) ==
    THREADS_PATTERN(procnum) \o THREAD_KEY_PATTERN(tnum)

STACK_PATTERN(procnum, tnum) == THREAD_PATTERN(procnum, tnum) \o ".Stack"

FRAME_KEY_PATTERN(level) == "[" \o FormatInt(level) \o "]"

\* Fault: the frame path hangs under the process, not under its thread.
FRAME_PATTERN_without_thread(procnum, tnum, level) ==
    PROCESS_PATTERN(procnum) \o ".Stack" \o FRAME_KEY_PATTERN(level)

FRAME_PATTERN(procnum, tnum, level) ==
    STACK_PATTERN(procnum, tnum) \o FRAME_KEY_PATTERN(level)

REGS_PATTERN(procnum, tnum, level) ==
    FRAME_PATTERN(procnum, tnum, level) \o ".Registers"

BANK_PATTERN(procnum, tnum, level, bank) ==
    REGS_PATTERN(procnum, tnum, level) \o "." \o bank

MEMORY_PATTERN(procnum) == PROCESS_PATTERN(procnum) \o ".Memory"

REGION_KEY_PATTERN(start) == "[" \o FormatHex08(start) \o "]"

REGION_PATTERN(procnum, start) ==
    MEMORY_PATTERN(procnum) \o REGION_KEY_PATTERN(start)

MODULES_PATTERN(procnum) == PROCESS_PATTERN(procnum) \o ".Modules"

MODULE_KEY_PATTERN(modpath) == "[" \o modpath \o "]"

MODULE_PATTERN(procnum, modpath) ==
    MODULES_PATTERN(procnum) \o MODULE_KEY_PATTERN(modpath)

SECTIONS_ADD_PATTERN == ".Sections"

SECTION_KEY_PATTERN(secname) == "[" \o secname \o "]"

SECTION_ADD_PATTERN(secname) ==
    SECTIONS_ADD_PATTERN \o SECTION_KEY_PATTERN(secname)

\* Bounds of the identifiers: process, thread, frame level, breakpoint or
\* watchpoint number, breakpoint location, pieces of a name.
MaxProc == 7
MaxThread == 10
MaxLevel == 1
MaxBreak == 2
MaxLoc == 2
MaxNameLen == 3

\* Module and section names are arbitrary strings: here, the strings made
\* of up to MaxNameLen pieces, a piece being a letter or the text that the
\* section pattern puts between a module name and a section name.
NamePieces == {"a", "].Sections["}

RECURSIVE NamesOfLen(_)
NamesOfLen(n) ==
    IF n = 0 THEN {""}
    ELSE {s \o t : s \in NamesOfLen(n - 1), t \in NamePieces}

Names == UNION {NamesOfLen(n) : n \in 1..MaxNameLen}

BankNames == {"General Purpose Registers", "Floating Point Registers"}

RegionStarts == {0, PAGE_SIZE, 16 * PAGE_SIZE * PAGE_SIZE}

Entity(cat, ids, names) == [cat |-> cat, ids |-> ids, names |-> names]

ProcIds == 0..MaxProc

Entities ==
    {Entity("process", <<p>>, <<>>) : p \in ProcIds}
    \cup {Entity("thread", <<p, t>>, <<>>) : p \in ProcIds, t \in 0..MaxThread}
    \cup {Entity("frame", <<p, t, l>>, <<>>) :
              p \in ProcIds, t \in 0..MaxThread, l \in 0..MaxLevel}
    \cup {Entity("bank", <<p, t, l>>, <<b>>) :
              p \in ProcIds, t \in 0..MaxThread, l \in 0..MaxLevel,
              b \in BankNames}
    \cup {Entity("region", <<p, a>>, <<>>) : p \in ProcIds, a \in RegionStarts}
    \cup {Entity("module", <<p>>, <<m>>) : p \in ProcIds, m \in Names}
    \cup {Entity("section", <<p>>, <<m, n>>) :
              p \in ProcIds, m \in Names, n \in Names}
    \cup {Entity("breakpoint", <<p, b>>, <<>>) :
              p \in ProcIds, b \in 0..MaxBreak}
    \cup {Entity("location", <<p, b, l>>, <<>>) :
              p \in ProcIds, b \in 0..MaxBreak, l \in 1..MaxLoc}
    \cup {Entity("watchpoint", <<p, w>>, <<>>) :
              p \in ProcIds, w \in 0..MaxBreak}

\* The path under which the synchronizers create the object of an entity.
PathOf(e) ==
    CASE e.cat = "process" -> PROCESS_PATTERN(e.ids[1])
      [] e.cat = "thread" -> THREAD_PATTERN(e.ids[1], e.ids[2])
      [] e.cat = "frame" -> FRAME_PATTERN(e.ids[1], e.ids[2], e.ids[3])
      [] e.cat = "bank" ->
            BANK_PATTERN(e.ids[1], e.ids[2], e.ids[3], e.names[1])
      [] e.cat = "region" -> REGION_PATTERN(e.ids[1], e.ids[2])
      [] e.cat = "module" -> MODULE_PATTERN(e.ids[1], e.names[1])
      [] e.cat = "section" ->
            MODULE_PATTERN(e.ids[1], e.names[1])
                \o SECTION_ADD_PATTERN(e.names[2])
      [] e.cat = "breakpoint" -> PROC_BREAK_PATTERN(e.ids[1], e.ids[2])
      [] e.cat = "location" ->
            PROC_BREAK_PATTERN(e.ids[1], e.ids[2])
                \o BREAK_LOC_KEY_PATTERN(e.ids[3])
      [] e.cat = "watchpoint" -> PROC_WATCH_PATTERN(e.ids[1], e.ids[2])

PathInit ==
    /\ SessionInit
    /\ QuantIdle
    /\ SyncIdle
    /\ HelperIdle
    /\ ent \in Entities
    /\ path = ""

\* PATTERN.format(...) for the entity.
FormatPath ==
    /\ path = ""
    /\ path' = PathOf(ent)
    /\ UNCHANGED <<ent, exceptPath>>

PathNext == FormatPath

SpecPath == PathInit /\ [][PathNext]_<<vars, otherVars>>

\* The decimal numerals, written out.
DecimalText ==
    <<"0", "1", "2", "3", "4", "5", "6", "7", "8", "9", "10", "11", "12">>

\* C19: for every process id p, thread id t and frame level l the frame path
\* is 'Processes[p].Threads[t].Stack[l]' with the ids in decimal; p = 7,
\* t = 3, l = 0 yields 'Processes[7].Threads[3].Stack[0]'.
C19_FramePath ==
    (ent.cat = "frame" /\ path # "")
        => /\ path = "Processes[" \o DecimalText[ent.ids[1] + 1]
                       \o "].Threads[" \o DecimalText[ent.ids[2] + 1]
                       \o "].Stack[" \o DecimalText[ent.ids[3] + 1] \o "]"
           /\ ent.ids = <<7, 3, 0>>
                => path = "Processes[7].Threads[3].Stack[0]"

C19_Witness ==
    /\ ent.cat = "frame" /\ ent.ids = <<7, 3, 0>>
    /\ path = "Processes[7].Threads[3].Stack[0]"

\* A frame of a thread with a two-digit id.
C19_WitnessTwoDigits ==
    /\ ent.cat = "frame" /\ ent.ids = <<1, 10, 1>>
    /\ path = "Processes[1].Threads[10].Stack[1]"

\* C20: path construction is injective: no entity of any category, other
\* than the one whose path was built, has the same path, module and section
\* names ranging over arbitrary strings.
C20_PathInjective ==
    path # "" => \A e \in Entities : e # ent => PathOf(e) # path

----------------------------------------------------------------------------
(* The object tree of the trace.  A synchronizer pass is an operator on a   *)
(* context                                                                  *)
(*   s = [tree, calls, removed, err]                                        *)
(* tree is the set of values [obj, key, val, elem] of the tree (elem: the   *)
(* key is an element key '[...]'), calls the calls issued in submission     *)
(* order, removed the values that retain-values took out during the pass.   *)
(* Values are written as text.                                              *)

FoldLeft(op(_, _), base, seq) ==
    LET RECURSIVE helper(_)
        helper(i) == IF i = 0 THEN base ELSE op(helper(i - 1), seq[i])
    IN  helper(Len(seq))

Range(seq) == {seq[i] : i \in 1..Len(seq)}

LogCall(s, op, obj, key, val, keys, addr) ==
    IF s.err = ""
    THEN [s EXCEPT !.calls = Append(@, [op |-> op, obj |-> obj, key |-> key,
                                         val |-> val, keys |-> keys,
                                         addr |-> addr])]
    ELSE s

\* trace.create_object(path): a handle; the tree changes when it is inserted.
create_object(s, opath) ==
    LogCall(s, "create_object", opath, "", "", <<>>, "")

\* The value of key at obj is replaced.
WithValue(t, obj, key, val, elem) ==
    {v \in t : ~(v.obj = obj /\ v.key = key)}
        \cup {[obj |-> obj, key |-> key, val |-> val, elem |-> elem]}

\* obj.set_value(key, val) with a value that carries the address addr ("" if
\* the value is not an address or a range).
set_value_at(s, obj, key, val, addr) ==
    IF s.err = ""
    THEN LogCall([s EXCEPT !.tree = WithValue(@, obj, key, val, FALSE)],
                 "set_value", obj, key, val, <<>>, addr)
    ELSE s

set_value(s, obj, key, val) == set_value_at(s, obj, key, val, "")

\* obj.insert() of the object at parent + key (an element) or at
\* parent + '.' + key (an attribute).
insert(s, parent, key, elem) ==
    LET child == IF elem THEN parent \o key ELSE parent \o "." \o key
    IN  IF s.err = ""
        THEN LogCall([s EXCEPT !.tree = WithValue(@, parent, key, child, elem)],
                     "insert", child, key, "", <<>>, "")
        ELSE s

\* proxy.retain_values(keys): the elements of obj whose key is not listed
\* are removed (kinds defaults to elements).
retain_values(s, obj, keys) ==
    LET gone == {v \in s.tree : v.obj = obj /\ v.elem /\ v.key \notin Range(keys)}
    IN  IF s.err = ""
        THEN LogCall([s EXCEPT !.tree = @ \ gone, !.removed = @ \cup gone],
                     "retain_values", obj, "", "", keys, "")
        ELSE s

create_overlay_space(s, base, space) ==
    LogCall(s, "create_overlay_space", "", base, space, <<>>, "")

\* mapper.map(proc, offset): the base space and the address; the space of
\* the address is the one the mapper of the trace assigns to the process.
map(h, offset) == [base |-> "ram", space |-> h.mm, offset |-> offset]

\* The text of an address and of the range addr.extend(length).
AddrText(m) == m.space \o ":" \o FormatHex08(m.offset)

RangeText(m, length) == AddrText(m) \o "+" \o FormatInt(length)

\* The call of mapper.map, as it appears among the calls of a pass.
mapped(s, m) == LogCall(s, "map", "", "", AddrText(m), <<m.base, m.space>>, "")

\* hex(n) and str(b)
hex(n) == "0x" \o ToBase(n, 16)

BoolText(b) == IF b THEN "True" ELSE "False"

NewPass(t) == [tree |-> t, calls |-> <<>>, removed |-> {}, err |-> ""]

----------------------------------------------------------------------------
(* What the debugger host reports.  Entities are records; an entity of a    *)
(* category carries the properties the synchronizer of the category reads.  *)

Available(pid, name) == [cat |-> "available", id |-> pid, name |-> name]

Thread(tid, name) == [cat |-> "thread", id |-> tid, name |-> name]

Frame(level, pc, function) ==
    [cat |-> "frame", id |-> level, pc |-> pc, name |-> function]

\* perms = "" stands for None.
Region(start, end, perms, offset, objfile) ==
    [cat |-> "region", start |-> start, end |-> end, perms |-> perms,
     offset |-> offset, objfile |-> objfile]

Section(name, start, end, offset, attrs) ==
    [cat |-> "section", name |-> name, start |-> start, end |-> end,
     offset |-> offset, attrs |-> attrs]

Module(name, base, max, sections) ==
    [cat |-> "module", name |-> name, base |-> base, max |-> max,
     sections |-> sections]

Location(address, enabled) ==
    [cat |-> "location", address |-> address, enabled |-> enabled]

\* location is the attribute b.location; commands and condition are empty
\* when the breakpoint has none.
Breakpoint(id, hardware, desc, commands, condition, location, locs) ==
    [cat |-> "breakpoint", id |-> id, hardware |-> hardware, desc |-> desc,
     commands |-> commands, condition |-> condition, hits |-> id,
     ignore |-> 0, oneshot |-> FALSE, enabled |-> TRUE,
     location |-> location, locs |-> locs]

\* The description of a watchpoint ends in 'type = ' and its access type.
Watchpoint(id, type, address, size, condition) ==
    [cat |-> "watchpoint", id |-> id, type |-> type, address |-> address,
     size |-> size, condition |-> condition, hits |-> id, ignore |-> 0,
     index |-> id - 1, enabled |-> TRUE]

\* The entities the host can report, per category, each with its sections
\* or locations in one order of enumeration.
Reported(cat) ==
    CASE cat = "available" -> {Available(1, "init"), Available(2, "sh")}
      [] cat = "thread" -> {Thread(1, "main"), Thread(2, "worker")}
      [] cat = "frame" ->
            {Frame(0, PAGE_SIZE, "main"), Frame(1, 2 * PAGE_SIZE, "start")}
      [] cat = "region" ->
            {Region(PAGE_SIZE, 2 * PAGE_SIZE, "r-x", 0, "/bin/a"),
             Region(2 * PAGE_SIZE, 3 * PAGE_SIZE, "", PAGE_SIZE, "")}
      [] cat = "module" ->
            {Module("/bin/a", PAGE_SIZE, 2 * PAGE_SIZE - 1,
                    <<Section(".text", PAGE_SIZE, 2 * PAGE_SIZE - 1, 0, "r-x"),
                      Section(".data", 2 * PAGE_SIZE, 2 * PAGE_SIZE + 15,
                              PAGE_SIZE, "rw-")>>),
             Module("[vdso]", 2 * PAGE_SIZE, 2 * PAGE_SIZE, <<>>)}
      [] cat = "breakpoint" ->
            {Breakpoint(1, FALSE, "main", <<>>, "", TRUE,
                        <<Location(PAGE_SIZE, TRUE),
                          Location(2 * PAGE_SIZE, FALSE)>>),
             Breakpoint(2, TRUE, "throw", <<"bt">>, "x > 0", FALSE,
                        <<Location(0, TRUE)>>)}
      [] cat = "watchpoint" ->
            {Watchpoint(1, "r", PAGE_SIZE, 4, ""),
             Watchpoint(1, "w", PAGE_SIZE, 4, ""),
             Watchpoint(2, "rw", 2 * PAGE_SIZE, 8, "x > 0")}
      [] OTHER -> {}

\* The same entity with its sections or locations enumerated in the
\* opposite order.
Reenumerated(e) ==
    LET opposite(seq) == [i \in 1..Len(seq) |-> seq[Len(seq) + 1 - i]]
    IN  IF e.cat = "module" THEN [e EXCEPT !.sections = opposite(@)]
        ELSE IF e.cat = "breakpoint" THEN [e EXCEPT !.locs = opposite(@)]
        ELSE e

Universe(cat) == Reported(cat) \cup {Reenumerated(e) : e \in Reported(cat)}

\* Two reports of one entity: the same thread, region, module, ...
SameEntity(e, f) ==
    /\ e.cat = f.cat
    /\ CASE e.cat = "region" -> e.start = f.start
         [] e.cat = "module" -> e.name = f.name
         [] OTHER -> e.id = f.id

\* The live entities of a category, in the order the host enumerates them.
Live(h, cat) == SelectSeq(h.live, LAMBDA e : e.cat = cat)

----------------------------------------------------------------------------
(* The store work of the synchronizers and of the commands that write       *)
(* addresses.  h is the host as the routine reads it, s the context.        *)

compute_proc_state(h) == IF h.running THEN "RUNNING" ELSE "STOPPED"

\* Fault: the Processes container is not pruned.
put_processes_store_without_retain(s, h) ==
    LET ipath == PROCESS_PATTERN(h.pid)
        a == create_object(s, ipath)
        b == set_value(a, ipath, "State", compute_proc_state(h))
    IN  insert(b, PROCESSES_PATH, PROCESS_KEY_PATTERN(h.pid), TRUE)

put_processes_store(s, h) ==
    LET ipath == PROCESS_PATTERN(h.pid)
        keys == <<PROCESS_KEY_PATTERN(h.pid)>>
        a == create_object(s, ipath)
        b == set_value(a, ipath, "State", compute_proc_state(h))
        c == insert(b, PROCESSES_PATH, PROCESS_KEY_PATTERN(h.pid), TRUE)
    IN  retain_values(c, PROCESSES_PATH, keys)

\* The body of the loop of put_available.
put_available_body(s, proc) ==
    LET ppath == AVAILABLE_PATTERN(proc.id)
        a == create_object(s, ppath)
        b == set_value(a, ppath, "PID", FormatInt(proc.id))
        c == set_value(b, ppath, "_display",
                       FormatInt(proc.id) \o " " \o proc.name)
    IN  insert(c, AVAILABLES_PATH, AVAILABLE_KEY_PATTERN(proc.id), TRUE)

put_available_store(s, h) ==
    LET procs == Live(h, "available")
        keys == [i \in 1..Len(procs) |-> AVAILABLE_KEY_PATTERN(procs[i].id)]
        a == FoldLeft(LAMBDA acc, proc : put_available_body(acc, proc),
                      s, procs)
    IN  retain_values(a, AVAILABLES_PATH, keys)

\* The body of the loop of put_single_breakpoint over the locations; i is
\* the index of enumerate, from 0.
put_single_breakpoint_loc(s, h, b, bpt_path, i) ==
    LET l == b.locs[i + 1]
        k == BREAK_LOC_KEY_PATTERN(i + 1)
        a == create_object(s, bpt_path \o k)
        m == map(h, l.address)
        c == mapped(a, m)
        d == IF m.base # m.space
             THEN create_overlay_space(c, m.base, m.space)
             ELSE c
        e == set_value_at(d, bpt_path \o k, "Range", RangeText(m, 1),
                          AddrText(m))
        f == set_value(e, bpt_path \o k, "Enabled", BoolText(l.enabled))
    IN  insert(IF b.location THEN f ELSE a, bpt_path, k, TRUE)

ListText(seq) == FoldLeft(LAMBDA acc, str : acc \o str \o ";", "", seq)

\* Fault: the retained location keys are numbered from 0.
put_single_breakpoint_retains_from_zero(s, h, b) ==
    LET bpt_path == PROC_BREAK_PATTERN(h.pid, b.id)
        a == create_object(s, bpt_path)
        c == set_value(a, bpt_path, "Expression", b.desc)
        d == set_value(c, bpt_path, "Kinds",
                       IF b.hardware THEN "HW_EXECUTE" ELSE "SW_EXECUTE")
        e == IF b.commands # <<>>
             THEN set_value(d, bpt_path, "Commands", ListText(b.commands))
             ELSE d
        f == IF b.condition # ""
             THEN set_value(e, bpt_path, "Condition", b.condition)
             ELSE e
        g == set_value(f, bpt_path, "Hit Count", FormatInt(b.hits))
        i == set_value(g, bpt_path, "Ignore Count", FormatInt(b.ignore))
        j == set_value(i, bpt_path, "Temporary", BoolText(b.oneshot))
        k == set_value(j, bpt_path, "Enabled", BoolText(b.enabled))
        loc_keys == [n \in 1..Len(b.locs) |-> BREAK_LOC_KEY_PATTERN(n - 1)]
        l == FoldLeft(LAMBDA acc, n :
                          put_single_breakpoint_loc(acc, h, b, bpt_path, n - 1),
                      k, [n \in 1..Len(b.locs) |-> n])
        m == retain_values(l, bpt_path, loc_keys)
    IN  insert(m, PROC_BREAKS_PATTERN(h.pid), BREAKPOINT_KEY_PATTERN(b.id),
               TRUE)

put_single_breakpoint(s, h, b) ==
    LET bpt_path == PROC_BREAK_PATTERN(h.pid, b.id)
        a == create_object(s, bpt_path)
        c == set_value(a, bpt_path, "Expression", b.desc)
        d == set_value(c, bpt_path, "Kinds",
                       IF b.hardware THEN "HW_EXECUTE" ELSE "SW_EXECUTE")
        e == IF b.commands # <<>>
             THEN set_value(d, bpt_path, "Commands", ListText(b.commands))
             ELSE d
        f == IF b.condition # ""
             THEN set_value(e, bpt_path, "Condition", b.condition)
             ELSE e
        g == set_value(f, bpt_path, "Hit Count", FormatInt(b.hits))
        i == set_value(g, bpt_path, "Ignore Count", FormatInt(b.ignore))
        j == set_value(i, bpt_path, "Temporary", BoolText(b.oneshot))
        k == set_value(j, bpt_path, "Enabled", BoolText(b.enabled))
        loc_keys == [n \in 1..Len(b.locs) |-> BREAK_LOC_KEY_PATTERN(n)]
        l == FoldLeft(LAMBDA acc, n :
                          put_single_breakpoint_loc(acc, h, b, bpt_path, n - 1),
                      k, [n \in 1..Len(b.locs) |-> n])
        m == retain_values(l, bpt_path, loc_keys)
    IN  insert(m, PROC_BREAKS_PATTERN(h.pid), BREAKPOINT_KEY_PATTERN(b.id),
               TRUE)

\* The needles of put_single_watchpoint, 'type = r' and 'type = rw', as
\* sequences of characters.
W_type_r == <<"t", "y", "p", "e", " ", "=", " ", "r">>

W_type_rw == <<"t", "y", "p", "e", " ", "=", " ", "r", "w">>

\* util.get_description(w, level=0): the brief description of a watchpoint
\* ends in its state and in 'type = ' with r, w or rw.
get_description(w) ==
    <<"s", "t", "a", "t", "e", " ", "=", " ", "e", "n", "a", "b", "l", "e",
      "d", " ", "t", "y", "p", "e", " ", "=", " ">>
        \o (CASE w.type = "r" -> <<"r">>
              [] w.type = "w" -> <<"w">>
              [] w.type = "rw" -> <<"r", "w">>)

\* 'needle in desc' for the description of the watchpoint.
desc_contains(w, needle) ==
    LET desc == get_description(w)
    IN  \E n \in 1..(Len(desc) - Len(needle) + 1) :
           SubSeq(desc, n, n + Len(needle) - 1) = needle

\* Fault: the test for 'type = r' comes after the test for 'type = rw'.
put_single_watchpoint_read_last(s, h, w) ==
    LET wpt_path == PROC_WATCH_PATTERN(h.pid, w.id)
        a == create_object(s, wpt_path)
        b == set_value(a, wpt_path, "Expression",
                       "Watchpoint " \o FormatInt(w.id) \o ": type = "
                           \o w.type)
        c == set_value(b, wpt_path, "Kinds", "WRITE")
        d == IF desc_contains(w, W_type_rw)
             THEN set_value(c, wpt_path, "Kinds", "READ,WRITE")
             ELSE c
        e == IF desc_contains(w, W_type_r)
             THEN set_value(d, wpt_path, "Kinds", "READ")
             ELSE d
        m == map(h, w.address)
        f == mapped(e, m)
        g == IF m.base # m.space
             THEN create_overlay_space(f, m.base, m.space)
             ELSE f
        i == set_value_at(g, wpt_path, "Range", RangeText(m, w.size),
                          AddrText(m))
        j == IF w.condition # ""
             THEN set_value(i, wpt_path, "Condition", w.condition)
             ELSE i
        k == set_value(j, wpt_path, "Hit Count", FormatInt(w.hits))
        l == set_value(k, wpt_path, "Ignore Count", FormatInt(w.ignore))
        n == set_value(l, wpt_path, "Hardware Index", FormatInt(w.index))
        o == set_value(n, wpt_path, "Watch Address", hex(w.address))
        p == set_value(o, wpt_path, "Watch Size", FormatInt(w.size))
        q == set_value(p, wpt_path, "Enabled", BoolText(w.enabled))
    IN  insert(q, PROC_WATCHES_PATTERN(h.pid), WATCHPOINT_KEY_PATTERN(w.id),
               TRUE)

put_single_watchpoint(s, h, w) ==
    LET wpt_path == PROC_WATCH_PATTERN(h.pid, w.id)
        a == create_object(s, wpt_path)
        b == set_value(a, wpt_path, "Expression",
                       "Watchpoint " \o FormatInt(w.id) \o ": type = "
                           \o w.type)
        c == set_value(b, wpt_path, "Kinds", "WRITE")
        d == IF desc_contains(w, W_type_r)
             THEN set_value(c, wpt_path, "Kinds", "READ")
             ELSE c
        e == IF desc_contains(w, W_type_rw)
             THEN set_value(d, wpt_path, "Kinds", "READ,WRITE")
             ELSE d
        m == map(h, w.address)
        f == mapped(e, m)
        g == IF m.base # m.space
             THEN create_overlay_space(f, m.base, m.space)
             ELSE f
        i == set_value_at(g, wpt_path, "Range", RangeText(m, w.size),
                          AddrText(m))
        j == IF w.condition # ""
             THEN set_value(i, wpt_path, "Condition", w.condition)
             ELSE i
        k == set_value(j, wpt_path, "Hit Count", FormatInt(w.hits))
        l == set_value(k, wpt_path, "Ignore Count", FormatInt(w.ignore))
        n == set_value(l, wpt_path, "Hardware Index", FormatInt(w.index))
        o == set_value(n, wpt_path, "Watch Address", hex(w.address))
        p == set_value(o, wpt_path, "Watch Size", FormatInt(w.size))
        q == set_value(p, wpt_path, "Enabled", BoolText(w.enabled))
    IN  insert(q, PROC_WATCHES_PATTERN(h.pid), WATCHPOINT_KEY_PATTERN(w.id),
               TRUE)

put_breakpoints_store(s, h) ==
    LET bpts == Live(h, "breakpoint")
        cont_path == PROC_BREAKS_PATTERN(h.pid)
        a == create_object(s, cont_path)
        keys == [i \in 1..Len(bpts) |-> BREAKPOINT_KEY_PATTERN(bpts[i].id)]
        b == FoldLeft(LAMBDA acc, bpt : put_single_breakpoint(acc, h, bpt),
                      a, bpts)
        c == insert(b, PROCESS_PATTERN(h.pid), "Breakpoints", FALSE)
    IN  retain_values(c, cont_path, keys)

\* Fault: the key of the first watchpoint is not kept.
put_watchpoints_store_skips_first_key(s, h) ==
    LET wpts == Live(h, "watchpoint")
        cont_path == PROC_WATCHES_PATTERN(h.pid)
        a == create_object(s, cont_path)
        keys == [i \in 1..Len(wpts) |-> WATCHPOINT_KEY_PATTERN(wpts[i].id)]
        b == FoldLeft(LAMBDA acc, wpt : put_single_watchpoint(acc, h, wpt),
                      a, wpts)
        c == insert(b, PROCESS_PATTERN(h.pid), "Watchpoints", FALSE)
    IN  retain_values(c, cont_path, IF keys = <<>> THEN keys ELSE Tail(keys))

put_watchpoints_store(s, h) ==
    LET wpts == Live(h, "watchpoint")
        cont_path == PROC_WATCHES_PATTERN(h.pid)
        a == create_object(s, cont_path)
        keys == [i \in 1..Len(wpts) |-> WATCHPOINT_KEY_PATTERN(wpts[i].id)]
        b == FoldLeft(LAMBDA acc, wpt : put_single_watchpoint(acc, h, wpt),
                      a, wpts)
        c == insert(b, PROCESS_PATTERN(h.pid), "Watchpoints", FALSE)
    IN  retain_values(c, cont_path, keys)

\* REGION_INFO_READER.full_mem(): one region for the whole address space
\* (its end is written as the largest number of the model).
full_mem == Region(0, 2147483647, "rwx", 0, "full memory")

\* "c in perms" for the permission strings of the regions.
perm_in(c, perms) ==
    CASE perms = "r-x" -> c \in {"r", "x"}
      [] perms = "rwx" -> c \in {"r", "w", "x"}
      [] OTHER -> FALSE

\* The body of the loop of put_regions.
put_regions_body(s, h, r) ==
    LET rpath == REGION_PATTERN(h.pid, r.start)
        a == create_object(s, rpath)
        m == map(h, r.start)
        b == mapped(a, m)
        c == IF m.base # m.space
             THEN create_overlay_space(b, m.base, m.space)
             ELSE b
        d == set_value_at(c, rpath, "Range", RangeText(m, r.end - r.start),
                          AddrText(m))
        e == IF r.perms # "" THEN set_value(d, rpath, "Permissions", r.perms)
             ELSE d
        f == set_value(e, rpath, "_readable",
                       BoolText(r.perms = "" \/ perm_in("r", r.perms)))
        g == set_value(f, rpath, "_writable",
                       BoolText(r.perms = "" \/ perm_in("w", r.perms)))
        i == set_value(g, rpath, "_executable",
                       BoolText(r.perms = "" \/ perm_in("x", r.perms)))
        j == set_value(i, rpath, "Offset", hex(r.offset))
        k == set_value(j, rpath, "Object File", r.objfile)
    IN  insert(k, MEMORY_PATTERN(h.pid), REGION_KEY_PATTERN(r.start), TRUE)

\* Fault: the full-memory region is substituted only when the query ran
\* and found no region.
put_regions_store_fallback_after_query_only(s, h, query) ==
    LET found == IF query = "ok" THEN Live(h, "region") ELSE <<>>
        regions == IF Len(found) = 0 /\ h.sel # None /\ query = "ok"
                   THEN <<full_mem>>
                   ELSE found
        keys == [i \in 1..Len(regions) |->
                    REGION_KEY_PATTERN(regions[i].start)]
        a == FoldLeft(LAMBDA acc, r : put_regions_body(acc, h, r), s, regions)
    IN  retain_values(a, MEMORY_PATTERN(h.pid), keys)

\* query: "ok" get_regions returns the live regions, "skipped"
\* should_query_regions is false, "raises" get_regions raises.
put_regions_store(s, h, query) ==
    LET found == IF query = "ok" THEN Live(h, "region") ELSE <<>>
        regions == IF Len(found) = 0 /\ h.sel # None THEN <<full_mem>>
                   ELSE found
        keys == [i \in 1..Len(regions) |->
                    REGION_KEY_PATTERN(regions[i].start)]
        a == FoldLeft(LAMBDA acc, r : put_regions_body(acc, h, r), s, regions)
    IN  retain_values(a, MEMORY_PATTERN(h.pid), keys)

\* The body of the loop of put_modules over the sections of a module.
put_modules_section(s, h, mpath, sec) ==
    LET spath == mpath \o SECTION_ADD_PATTERN(sec.name)
        a == create_object(s, spath)
        m == map(h, sec.start)
        b == mapped(a, m)
        c == IF m.base # m.space
             THEN create_overlay_space(b, m.base, m.space)
             ELSE b
        d == set_value_at(c, spath, "Range",
                          RangeText(m, sec.end - sec.start + 1), AddrText(m))
        e == set_value(d, spath, "Offset", hex(sec.offset))
        f == set_value(e, spath, "Attrs", sec.attrs)
    IN  insert(f, mpath \o SECTIONS_ADD_PATTERN,
               SECTION_KEY_PATTERN(sec.name), TRUE)

\* The body of the loop of put_modules.
put_modules_body(s, h, mod) ==
    LET mpath == MODULE_PATTERN(h.pid, mod.name)
        a == create_object(s, mpath)
        b == set_value(a, mpath, "Name", mod.name)
        m == map(h, mod.base)
        c == mapped(b, m)
        d == IF m.base # m.space
             THEN create_overlay_space(c, m.base, m.space)
             ELSE c
        e == IF mod.max > mod.base
             THEN set_value_at(d, mpath, "Range",
                               RangeText(m, mod.max - mod.base + 1),
                               AddrText(m))
             ELSE d
        sec_keys == [i \in 1..Len(mod.sections) |->
                        SECTION_KEY_PATTERN(mod.sections[i].name)]
        f == FoldLeft(LAMBDA acc, sec : put_modules_section(acc, h, mpath, sec),
                      e, mod.sections)
        g == insert(f, MODULES_PATTERN(h.pid), MODULE_KEY_PATTERN(mod.name),
                    TRUE)
    IN  retain_values(g, mpath \o SECTIONS_ADD_PATTERN, sec_keys)

put_modules_store(s, h) ==
    LET modules == Live(h, "module")
        mod_keys == [i \in 1..Len(modules) |->
                        MODULE_KEY_PATTERN(modules[i].name)]
        a == FoldLeft(LAMBDA acc, mod : put_modules_body(acc, h, mod),
                      s, modules)
    IN  retain_values(a, MODULES_PATTERN(h.pid), mod_keys)

\* The convenience variable output-radix is 'auto'.
OutputRadix == 16

\* The body of the loop of put_threads.
put_threads_body(s, h, t) ==
    LET tpath == THREAD_PATTERN(h.pid, t.id)
        a == create_object(s, tpath)
        b == set_value(a, tpath, "State", compute_proc_state(h))
        c == set_value(b, tpath, "Name", t.name)
        d == set_value(c, tpath, "TID", FormatInt(t.id))
        tidstr == IF OutputRadix = 16 THEN "0x" \o ToBase(t.id, 16)
                  ELSE IF OutputRadix = 8 THEN "0" \o ToBase(t.id, 8)
                  ELSE FormatInt(t.id)
        e == set_value(d, tpath, "_short_display",
                       "[" \o FormatInt(h.pid) \o "." \o FormatInt(t.id)
                           \o ":" \o tidstr \o "]")
        f == set_value(e, tpath, "_display", t.name)
    IN  insert(f, THREADS_PATTERN(h.pid), THREAD_KEY_PATTERN(t.id), TRUE)

\* Fault: the Threads container is pruned before the loop, while the list
\* of keys is still empty, and again after it.
put_threads_store_prunes_first(s, h) ==
    LET threads == Live(h, "thread")
        keys == [i \in 1..Len(threads) |-> THREAD_KEY_PATTERN(threads[i].id)]
        a == retain_values(s, THREADS_PATTERN(h.pid), <<>>)
        b == FoldLeft(LAMBDA acc, t : put_threads_body(acc, h, t), a, threads)
    IN  retain_values(b, THREADS_PATTERN(h.pid), keys)

put_threads_store(s, h) ==
    LET threads == Live(h, "thread")
        keys == [i \in 1..Len(threads) |-> THREAD_KEY_PATTERN(threads[i].id)]
        a == FoldLeft(LAMBDA acc, t : put_threads_body(acc, h, t), s, threads)
    IN  retain_values(a, THREADS_PATTERN(h.pid), keys)

\* The body of the loop of put_frames.
put_frames_body(s, h, f) ==
    LET fpath == FRAME_PATTERN(h.pid, h.sel, f.id)
        a == create_object(s, fpath)
        m == map(h, f.pc)
        b == mapped(a, m)
        c == IF m.base # m.space
             THEN create_overlay_space(b, m.base, m.space)
             ELSE b
        d == set_value_at(c, fpath, "PC", AddrText(m), AddrText(m))
        e == set_value(d, fpath, "Function", f.name)
        g == set_value(e, fpath, "_display", f.name)
        i == insert(g, STACK_PATTERN(h.pid, h.sel), FRAME_KEY_PATTERN(f.id),
                    TRUE)
        j == create_object(i, fpath \o ".Registers")
    IN  insert(j, fpath, "Registers", FALSE)

\* Fault: the Stack container is pruned before the frames are written.
put_frames_store_retains_before_loop(s, h) ==
    LET frames == Live(h, "frame")
        keys == [i \in 1..Len(frames) |-> FRAME_KEY_PATTERN(frames[i].id)]
        a == retain_values(s, STACK_PATTERN(h.pid, h.sel), keys)
    IN  IF h.sel = None THEN s
        ELSE FoldLeft(LAMBDA acc, f : put_frames_body(acc, h, f), a, frames)

put_frames_store(s, h) ==
    LET frames == Live(h, "frame")
        keys == [i \in 1..Len(frames) |-> FRAME_KEY_PATTERN(frames[i].id)]
        a == FoldLeft(LAMBDA acc, f : put_frames_body(acc, h, f), s, frames)
    IN  IF h.sel = None THEN s
        ELSE retain_values(a, STACK_PATTERN(h.pid, h.sel), keys)

\* Fault: the memory is read after the overlay space has been declared.
put_bytes_store_reads_after_declaring(s, h, start, end, pages, readok) ==
    LET q == IF pages THEN quantize_pages(start, end) ELSE <<start, end>>
        m == map(h, q[1])
        a == mapped(s, m)
        b == IF m.base # m.space
             THEN create_overlay_space(a, m.base, m.space)
             ELSE a
        c == LogCall(b, "put_bytes", "", "", FormatInt(q[2] - q[1]), <<>>,
                     AddrText(m))
    IN  IF q[2] - q[1] <= 0 THEN s
        ELSE IF readok THEN c
        ELSE Raise(b, "Cannot read memory")

\* put_bytes from the quantization on.  readok: proc.ReadMemory succeeds.
put_bytes_store(s, h, start, end, pages, readok) ==
    LET q == IF pages THEN quantize_pages(start, end) ELSE <<start, end>>
        m == map(h, q[1])
        a == mapped(s, m)
        b == IF m.base # m.space
             THEN create_overlay_space(a, m.base, m.space)
             ELSE a
        c == LogCall(b, "put_bytes", "", "", FormatInt(q[2] - q[1]), <<>>,
                     AddrText(m))
    IN  IF q[2] - q[1] <= 0 THEN s
        ELSE IF readok THEN c
        ELSE Raise(s, "Cannot read memory")

\* The range ghidra_trace_putval hands to put_bytes for a value of the given
\* size at the address start.
putval_range(start, size) == <<start, start + start + size>>

\* ghidra_trace_putval from the parsing of the arguments on.  valid: the
\* value of the expression has an address.
putval_store(s, h, nargs, valid, start, size, readok) ==
    LET range == putval_range(start, size)
    IN  IF nargs = 1
        THEN IF valid
             THEN put_bytes_store(s, h, range[1], range[2], TRUE, readok)
             ELSE Raise(s, "Expression does not have an address")
        ELSE IF nargs = 2 THEN Raise(s, "list index out of range")
        ELSE Raise(s, "Usage: ghidra trace putval EXPRESSION [PAGES]")

\* The states trace.validate_state accepts.
MemoryStates == {"unknown", "known", "error"}

\* Fault: the overlay space is declared after the state has been written.
putmem_state_store_declares_late(s, h, start, end, state, pages) ==
    LET a == IF state \notin MemoryStates THEN Raise(s, "Invalid memory state")
             ELSE s
        q == IF pages THEN quantize_pages(start, end) ELSE <<start, end>>
        m == map(h, q[1])
        b == mapped(a, m)
        c == LogCall(b, "set_memory_state", "", "",
                     RangeText(m, q[2] - q[1]) \o " " \o state, <<>>,
                     AddrText(m))
    IN  IF m.base # m.space
        THEN create_overlay_space(c, m.base, m.space)
        ELSE c

\* putmem_state from validate_state on.
putmem_state_store(s, h, start, end, state, pages) ==
    LET a == IF state \notin MemoryStates THEN Raise(s, "Invalid memory state")
             ELSE s
        q == IF pages THEN quantize_pages(start, end) ELSE <<start, end>>
        m == map(h, q[1])
        b == mapped(a, m)
        c == IF m.base # m.space
             THEN create_overlay_space(b, m.base, m.space)
             ELSE b
    IN  LogCall(c, "set_memory_state", "", "",
                RangeText(m, q[2] - q[1]) \o " " \o state, <<>>, AddrText(m))

\* ghidra_trace_disassemble from the mapping on.
disassemble_store(s, h, start) ==
    LET m == map(h, start)
        a == mapped(s, m)
        b == IF m.base # m.space
             THEN create_overlay_space(a, m.base, m.space)
             ELSE a
    IN  LogCall(b, "disassemble", "", "", "", <<>>, AddrText(m))

\* ghidra_trace_set_value from the schema test on.  kind: "object" the
\* schema is OBJECT and the value a path, "pointer" the expression has a
\* pointer type (eval_value maps it), "int" it is an integer.
set_value_store(s, h, opath, key, kind, value) ==
    LET m == map(h, value)
        a == mapped(s, m)
        b == IF m.base # m.space
             THEN create_overlay_space(a, m.base, m.space)
             ELSE a
    IN  CASE kind = "object" -> set_value(s, opath, key, PROCESS_PATTERN(value))
          [] kind = "pointer" ->
                set_value_at(b, opath, key, AddrText(m), AddrText(m))
          [] OTHER -> set_value(s, opath, key, FormatInt(value))

----------------------------------------------------------------------------
(* The synchronizer passes as a state machine.  The session holds a trace   *)
(* and a transaction; the host changes between passes; a behaviour          *)
(* exercises one routine.                                                   *)

\* Bounds: process ids, live entities of a category, passes of a behaviour.
MaxPid == 1
MaxLive == 2
MaxPass == 3

\* How many times the process is launched again, under the next process id.
MaxRelaunch == 1

MapperSpaces == {"ram", "ram2"}

Synchronizers ==
    {"put_processes", "put_available", "put_threads", "put_frames",
     "put_regions", "put_modules", "put_breakpoints", "put_watchpoints"}

\* The category of entities a routine enumerates ("" if none).
CategoryOf(routine) ==
    CASE routine = "put_available" -> "available"
      [] routine = "put_threads" -> "thread"
      [] routine = "put_frames" -> "frame"
      [] routine = "put_regions" -> "region"
      [] routine = "put_modules" -> "module"
      [] routine = "put_breakpoints" -> "breakpoint"
      [] routine = "put_watchpoints" -> "watchpoint"
      [] OTHER -> ""

\* A session in which a trace is started and a transaction is open.
SessionInTx ==
    /\ client = 1
    /\ trace = 1
    /\ tx = 2
    /\ tracing = TRUE
    /\ nclients = 1
    /\ ntraces = 1
    /\ ntx = 2
    /\ stack = <<>>
    /\ last = [cmd |-> "tx-start", phase |-> "done", nargs |-> 1, fail |-> 0,
               err |-> "",
               pre |-> [client |-> 1, trace |-> 1, tx |-> None,
                        tracing |-> TRUE],
               calls |-> <<[op |-> "start_tx", id |-> 2]>>]

SyncInit ==
    /\ SessionInTx
    /\ QuantIdle
    /\ PathIdle
    /\ HelperIdle
    /\ host \in [pid : 1..MaxPid, sel : {None, 1}, mm : MapperSpaces,
                  running : BOOLEAN, live : {<<>>}]
    /\ tree = {}
    /\ hist = <<>>
    /\ npass = 0

\* The behaviour exercises this routine: every pass so far was one of it
\* and the live entities are of its category.
Exercises(routine) ==
    /\ \A i \in 1..Len(hist) : hist[i].routine = routine
    /\ \A e \in Range(host.live) : e.cat = CategoryOf(routine)

\* A pass of routine with the given inputs ended in context r.
Pass(routine, input, r) ==
    LET rec == [routine |-> routine, host |-> host, input |-> input,
                calls |-> r.calls, tree |-> r.tree, removed |-> r.removed,
                err |-> r.err]
    IN  /\ npass < MaxPass
        /\ Exercises(routine)
        /\ require_tx(Cur).err = ""
        /\ tree' = r.tree
        /\ hist' = IF Len(hist) = 2 THEN <<hist[2], rec>> ELSE Append(hist, rec)
        /\ npass' = npass + 1
        /\ UNCHANGED <<host, exceptSync>>

PutProcesses ==
    Pass("put_processes", <<>>, put_processes_store(NewPass(tree), host))

PutAvailable ==
    Pass("put_available", <<>>, put_available_store(NewPass(tree), host))

PutThreads ==
    Pass("put_threads", <<>>, put_threads_store(NewPass(tree), host))

PutFrames ==
    Pass("put_frames", <<>>, put_frames_store(NewPass(tree), host))

PutRegions ==
    \E query \in {"ok", "skipped", "raises"} :
        Pass("put_regions", <<query>>,
             put_regions_store(NewPass(tree), host, query))

PutModules ==
    Pass("put_modules", <<>>, put_modules_store(NewPass(tree), host))

PutBreakpoints ==
    Pass("put_breakpoints", <<>>, put_breakpoints_store(NewPass(tree), host))

PutWatchpoints ==
    Pass("put_watchpoints", <<>>, put_watchpoints_store(NewPass(tree), host))

\* ghidra trace putmem ADDRESS LENGTH [PAGES]
PutMem ==
    \E start \in {0, 4100}, length \in {0, 4200}, pages \in BOOLEAN,
       readok \in BOOLEAN :
        Pass("putmem", <<start, length, pages, readok>>,
             put_bytes_store(NewPass(tree), host, start, start + length,
                             pages, readok))

\* The command lines of putval: one expression whose value has an address
\* (start) and a size, one expression without an address, and command lines
\* with two and with three arguments.
PutValInputs ==
    {in \in [nargs : 1..3, valid : BOOLEAN, start : {0, 4100}, size : {0, 8},
              readok : BOOLEAN] :
        (in.nargs # 1 \/ ~in.valid)
           => in.valid = (in.nargs # 1) /\ in.start = 0 /\ in.size = 0
                 /\ in.readok}

\* ghidra trace putval EXPRESSION [PAGES]
PutVal ==
    \E in \in PutValInputs :
        Pass("putval", <<in.nargs, in.valid, in.start, in.size, in.readok>>,
             putval_store(NewPass(tree), host, in.nargs, in.valid, in.start,
                          in.size, in.readok))

\* ghidra trace putmem-state ADDRESS LENGTH STATE [PAGES]
PutMemState ==
    \E start \in {0, 4100}, length \in {0, 4200}, pages \in BOOLEAN,
       state \in {"known", "bogus"} :
        Pass("putmem-state", <<start, length, pages, state>>,
             putmem_state_store(NewPass(tree), host, start, start + length,
                                state, pages))

\* ghidra trace disassemble ADDRESS
Disassemble ==
    \E start \in {0, PAGE_SIZE, 4100} :
        Pass("disassemble", <<start>>,
             disassemble_store(NewPass(tree), host, start))

\* ghidra trace set-value PATH KEY VALUE [SCHEMA]
SetValue ==
    \E kind \in {"object", "pointer", "int"}, value \in {1, PAGE_SIZE} :
        Pass("set-value", <<kind, value>>,
             set_value_store(NewPass(tree), host, PROCESS_PATTERN(host.pid),
                             "Value", kind, value))

\* The host reports one more entity, after the ones it reported before.
Appear ==
    /\ npass < MaxPass
    /\ Len(host.live) < MaxLive
    /\ \E routine \in Synchronizers :
          \E e \in Universe(CategoryOf(routine)) :
            /\ Exercises(routine)
            /\ \A f \in Range(host.live) : ~SameEntity(e, f)
            /\ e.cat = "frame" => host.sel # None
            /\ host' = [host EXCEPT !.live = Append(@, e)]
    /\ UNCHANGED <<tree, hist, npass, exceptSync>>

\* The process exits and the target is launched again: util.get_process()
\* is a new process, with a new id and nothing of the old one.  (Followed
\* after a pass, in the behaviours that exercise put_processes.)
Relaunch ==
    /\ npass < MaxPass
    /\ hist # <<>>
    /\ Exercises("put_processes")
    /\ host.pid < MaxPid + MaxRelaunch
    /\ host' = [host EXCEPT !.pid = @ + 1, !.live = <<>>]
    /\ UNCHANGED <<tree, hist, npass, exceptSync>>

\* The host no longer reports one of the entities.
Disappear ==
    /\ npass < MaxPass
    /\ \E i \in 1..Len(host.live) :
          host' = [host EXCEPT !.live = SubSeq(@, 1, i - 1)
                                            \o SubSeq(@, i + 1, Len(@))]
    /\ UNCHANGED <<tree, hist, npass, exceptSync>>

SyncNext ==
    \/ PutProcesses
    \/ PutAvailable
    \/ PutThreads
    \/ PutFrames
    \/ PutRegions
    \/ PutModules
    \/ PutBreakpoints
    \/ PutWatchpoints
    \/ PutMem
    \/ PutVal
    \/ PutMemState
    \/ Disassemble
    \/ SetValue
    \/ Appear
    \/ Disappear
    \/ Relaunch

SpecSync == SyncInit /\ [][SyncNext]_<<vars, otherVars>>

----------------------------------------------------------------------------
(* Properties of the synchronizers *)

\* The last two passes were passes of one category synchronizer.
TwoPasses ==
    /\ Len(hist) = 2
    /\ hist[1].routine = hist[2].routine
    /\ hist[2].routine \in Synchronizers

\* The host reported the same to both passes.
SameHost == hist[1].host = hist[2].host /\ hist[1].input = hist[2].input

\* C14: when a category synchronizer runs twice in a row and the host
\* reports the same live entities to both passes, the tree after the second
\* pass equals the tree after the first, and the second pass removes no
\* value from the tree.
C14_SyncIdempotent ==
    (TwoPasses /\ SameHost)
        => /\ hist[2].tree = hist[1].tree
           /\ hist[2].removed = {}

\* Two passes over the same two entities, the first of which had stale
\* values to prune.
C14_Witness ==
    /\ TwoPasses /\ SameHost
    /\ Len(hist[2].host.live) = 2
    /\ hist[1].removed # {}
    /\ hist[2].tree = hist[1].tree

\* The container whose elements a synchronizer prunes.
Container(routine, h) ==
    CASE routine = "put_processes" -> PROCESSES_PATH
      [] routine = "put_available" -> AVAILABLES_PATH
      [] routine = "put_threads" -> THREADS_PATTERN(h.pid)
      [] routine = "put_frames" -> STACK_PATTERN(h.pid, h.sel)
      [] routine = "put_regions" -> MEMORY_PATTERN(h.pid)
      [] routine = "put_modules" -> MODULES_PATTERN(h.pid)
      [] routine = "put_breakpoints" -> PROC_BREAKS_PATTERN(h.pid)
      [] routine = "put_watchpoints" -> PROC_WATCHES_PATTERN(h.pid)

\* The key of a live entity in its container.
EntityKey(e) ==
    CASE e.cat = "available" -> AVAILABLE_KEY_PATTERN(e.id)
      [] e.cat = "thread" -> THREAD_KEY_PATTERN(e.id)
      [] e.cat = "frame" -> FRAME_KEY_PATTERN(e.id)
      [] e.cat = "region" -> REGION_KEY_PATTERN(e.start)
      [] e.cat = "module" -> MODULE_KEY_PATTERN(e.name)
      [] e.cat = "breakpoint" -> BREAKPOINT_KEY_PATTERN(e.id)
      [] e.cat = "watchpoint" -> WATCHPOINT_KEY_PATTERN(e.id)

\* The retain-values calls of a pass on a container, and the keys they keep.
RetainCalls(p, obj) ==
    {i \in 1..Len(p.calls) :
        p.calls[i].op = "retain_values" /\ p.calls[i].obj = obj}

RetainKeys(p, obj) == UNION {Range(p.calls[i].keys) : i \in RetainCalls(p, obj)}

\* Between the two passes exactly the entity e disappeared from the host.
Disappeared(e) ==
    /\ TwoPasses
    /\ hist[1].input = hist[2].input
    /\ [hist[1].host EXCEPT !.live = <<>>] = [hist[2].host EXCEPT !.live = <<>>]
    /\ e \in Range(hist[1].host.live)
    /\ Range(hist[2].host.live) = Range(hist[1].host.live) \ {e}

\* The second pass is a put-regions pass that substitutes the full-memory
\* region because no region is left while a thread is selected.
FallbackRegion ==
    /\ hist[2].routine = "put_regions"
    /\ hist[2].host.sel # None
    /\ hist[2].host.live = <<>>

\* C15: if exactly one entity disappears between two passes of a category
\* synchronizer, the key set of the second retain-values call on the
\* container is the key set of the first minus exactly that entity's key.
C15_PruneExactlyOne ==
    \A c \in {CategoryOf(r) : r \in Synchronizers} : \A e \in Universe(c) :
        Disappeared(e)
            => LET obj == Container(hist[2].routine, hist[2].host)
               IN  /\ Cardinality(RetainCalls(hist[1], obj)) = 1
                   /\ Cardinality(RetainCalls(hist[2], obj)) = 1
                   /\ RetainKeys(hist[2], obj)
                         = RetainKeys(hist[1], obj) \ {EntityKey(e)}

\* C15 as the code has it: the same, except that put-regions, when the
\* entity that disappeared was the last region and a thread is selected,
\* hands retain-values the key of the substituted full-memory region.
C15_PruneExactlyOneOrFallback ==
    \A c \in {CategoryOf(r) : r \in Synchronizers} : \A e \in Universe(c) :
        Disappeared(e)
            => LET obj == Container(hist[2].routine, hist[2].host)
               IN  /\ Cardinality(RetainCalls(hist[1], obj)) = 1
                   /\ Cardinality(RetainCalls(hist[2], obj)) = 1
                   /\ RetainKeys(hist[2], obj)
                         = IF FallbackRegion /\ hist[2].input = <<"ok">>
                           THEN {REGION_KEY_PATTERN(full_mem.start)}
                           ELSE RetainKeys(hist[1], obj) \ {EntityKey(e)}

\* One of two breakpoints disappeared between two put-breakpoints passes.
C15_Witness ==
    /\ \E e \in Universe("breakpoint") : Disappeared(e)
    /\ Len(hist[1].host.live) = 2
    /\ Cardinality(RetainKeys(hist[2],
                               Container(hist[2].routine, hist[2].host))) = 1

\* The last region disappeared while a thread was selected.
C15_WitnessFallback ==
    /\ \E e \in Universe("region") : Disappeared(e)
    /\ FallbackRegion /\ hist[2].input = <<"ok">>

\* The routines that map a native address and write it.
AddressWriters ==
    {"putmem", "putval", "putmem-state", "disassemble", "set-value", "put_regions",
     "put_modules", "put_frames", "put_breakpoints", "put_watchpoints"}

\* The calls of the pass made last.
LastCalls == hist[Len(hist)].calls

Maps == {i \in 1..Len(LastCalls) : LastCalls[i].op = "map"}

\* The calls between the mapping at i and the next mapping.
After(i) ==
    {j \in (i + 1)..Len(LastCalls) : \A k \in Maps : k > i => j < k}

Declarations(i) ==
    {j \in After(i) : LastCalls[j].op = "create_overlay_space"}

\* C16: in every routine that maps a native address and writes it, each
\* mapping whose base space differs from the space of the address is
\* followed by exactly one create-overlay-space call for these two spaces,
\* issued before every write that uses the address; a mapping whose spaces
\* are equal is followed by none; every write of an address follows the
\* mapping of that address.
C16_OverlayBeforeWrite ==
    (hist # <<>> /\ hist[Len(hist)].routine \in AddressWriters)
        => /\ \A i \in Maps :
                 IF LastCalls[i].keys[1] # LastCalls[i].keys[2]
                 THEN /\ Cardinality(Declarations(i)) = 1
                      /\ \A j \in Declarations(i) :
                            /\ LastCalls[j].key = LastCalls[i].keys[1]
                            /\ LastCalls[j].val = LastCalls[i].keys[2]
                            /\ \A k \in After(i) :
                                  LastCalls[k].addr # "" => j < k
                 ELSE Declarations(i) = {}
           /\ \A k \in 1..Len(LastCalls) :
                 LastCalls[k].addr # ""
                    => \E i \in Maps : k \in After(i)
                                         /\ LastCalls[i].val = LastCalls[k].addr
           /\ \A j \in 1..Len(LastCalls) :
                 LastCalls[j].op = "create_overlay_space"
                    => \E i \in Maps : j \in Declarations(i)

\* A pass mapped two addresses into an overlay space and wrote both.
C16_Witness ==
    /\ hist # <<>> /\ hist[Len(hist)].routine \in AddressWriters
    /\ Cardinality(Maps) >= 2
    /\ \A i \in Maps : Cardinality(Declarations(i)) = 1
    /\ \E k \in 1..Len(LastCalls) : LastCalls[k].addr # ""

\* putmem-state wrote a range whose address lies in the base space.
C16_WitnessSameSpace ==
    /\ hist # <<>> /\ hist[Len(hist)].routine = "putmem-state"
    /\ Maps # {}
    /\ \A i \in Maps : Declarations(i) = {}
    /\ \E k \in 1..Len(LastCalls) : LastCalls[k].op = "set_memory_state"

\* putmem-state wrote a range whose address lies in an overlay space.
C16_WitnessPutMemState ==
    /\ hist # <<>> /\ hist[Len(hist)].routine = "putmem-state"
    /\ \E i \in Maps : Declarations(i) # {}
    /\ \E k \in 1..Len(LastCalls) : LastCalls[k].op = "set_memory_state"

----------------------------------------------------------------------------
(* put-all *)

\* The steps of put-all that can raise, by failure code.
PutAllSteps == 1..12

\* C25: if a constituent step of put-all raises (the register put, the $pc
\* or $sp memory put, or one of the nine synchronizers), put-all ends with an
\* error in its result instead of a success status.
C25_PutAllPropagates ==
    (/\ last.cmd = "put-all"
     /\ last.nargs = 0
     /\ last.pre.tx # None
     /\ last.fail \in PutAllSteps)
        => last.err # ""

----------------------------------------------------------------------------
(* Region keys of a 64-bit target.  A 64-bit start address is written as    *)
(* its four 16-bit words, most significant first; '{start:08x}' is computed *)
(* digit by digit.                                                          *)

WordBase == 256 * 256

\* The 16-bit words the start addresses are made of: 0x0000, 0x0001, 0xabcd
\* and 0xffff.
WordValues == {0, 1, 43981, WordBase - 1}

Starts64 == [1..4 -> WordValues]

\* The hexadecimal digits of n >= 0, most significant first, one per element.
RECURSIVE HexDigits(_)
HexDigits(n) ==
    IF n < 16 THEN <<Digits[n + 1]>>
    ELSE Append(HexDigits(n \div 16), Digits[(n % 16) + 1])

RECURSIVE ZeroPadDigits(_, _)
ZeroPadDigits(ds, width) ==
    IF Len(ds) >= width THEN ds ELSE ZeroPadDigits(<<"0">> \o ds, width)

\* format(start, 'x') of the number with the words w: no leading zeros.
RECURSIVE HexDigits64(_)
HexDigits64(w) ==
    IF Len(w) = 1 THEN HexDigits(w[1])
    ELSE IF w[1] = 0 THEN HexDigits64(Tail(w))
    ELSE LET rest == [i \in 1..(Len(w) - 1) |->
                          ZeroPadDigits(HexDigits(w[i + 1]), 4)]
         IN  FoldLeft(LAMBDA acc, ds : acc \o ds, HexDigits(w[1]), rest)

\* Fault: the field is cut to its width, keeping the low eight digits.
FormatHex08Digits_truncating(w) ==
    LET ds == ZeroPadDigits(HexDigits64(w), 8)
    IN  SubSeq(ds, Len(ds) - 7, Len(ds))

\* '{start:08x}': the width is a minimum, the digits are never cut.
FormatHex08Digits(w) == ZeroPadDigits(HexDigits64(w), 8)

JoinDigits(ds) == FoldLeft(LAMBDA acc, d : acc \o d, "", ds)

\* keys.append(REGION_KEY_PATTERN.format(start=r.start))
region_key(w) ==
    LET ds == FormatHex08Digits(w)
    IN  [done |-> TRUE, digits |-> ds, key |-> "[" \o JoinDigits(ds) \o "]"]

RegionKeyArgs == {[fn |-> "region_key", start |-> w] : w \in Starts64}

RegionKey ==
    /\ arg.fn = "region_key"
    /\ ret = NoRet
    /\ ret' = region_key(arg.start)
    /\ UNCHANGED <<arg, exceptHelper>>

----------------------------------------------------------------------------
(* Byte order and register bytes.  An SBData is [byte_order, uint8s]; an    *)
(* outcome is [done, err, val] and, for convert_value, the schema tag.      *)

\* lldb.eByteOrderInvalid, eByteOrderBig, eByteOrderPDP, eByteOrderLittle
ByteOrders == {"eByteOrderInvalid", "eByteOrderBig", "eByteOrderPDP",
               "eByteOrderLittle"}

\* Longest byte sequence of a value.
MaxBytes == 2

ByteValues == {0, 1, 128, 255}

ByteSeqs == UNION {[1..n -> ByteValues] : n \in 0..MaxBytes}

SBData == [byte_order : ByteOrders, uint8s : ByteSeqs]

Raised(msg) == [done |-> TRUE, err |-> msg, val |-> None, schema |-> "none"]

Returned(v, schema) == [done |-> TRUE, err |-> <<>>, val |-> v, schema |-> schema]

\* The order, or the message of the ValueError raised.
get_byte_order(order) ==
    IF order = "eByteOrderBig" THEN Returned("big", "none")
    ELSE IF order = "eByteOrderLittle" THEN Returned("little", "none")
    ELSE IF order = "eByteOrderPDP"
    THEN Raised(<<"PDP byte order unsupported">>)
    ELSE Raised(<<"Unrecognized order: ", order>>)

RECURSIVE Pow256(_)
Pow256(n) == IF n = 0 THEN 1 ELSE 256 * Pow256(n - 1)

RECURSIVE SumSeq(_)
SumSeq(seq) == IF seq = <<>> THEN 0 ELSE Head(seq) + SumSeq(Tail(seq))

\* int.from_bytes(bs, order): unsigned; the weight of byte i is 256 to the
\* number of bytes after it (big) or before it (little).
from_bytes(bs, order) ==
    SumSeq([i \in 1..Len(bs) |->
                bs[i] * Pow256(IF order = "big" THEN Len(bs) - i ELSE i - 1)])

data_to_int(data) ==
    LET order == get_byte_order(data.byte_order)
    IN  IF order.err # <<>> THEN order
        ELSE Returned(from_bytes(data.uint8s, order.val), "none")

reversed(bs) == [i \in 1..Len(bs) |-> bs[Len(bs) + 1 - i]]

\* Fault: the bytes are returned in the order of the source.
data_to_reg_bytes_source_order(data) ==
    LET order == get_byte_order(data.byte_order)
    IN  IF order.err # <<>> THEN order
        ELSE Returned(data.uint8s, "none")

data_to_reg_bytes(data) ==
    LET order == get_byte_order(data.byte_order)
    IN  IF order.err # <<>> THEN order
        ELSE IF order.val = "little"
        THEN Returned(reversed(data.uint8s), "none")
        ELSE Returned(data.uint8s, "none")

RegBytesArgs == {[fn |-> "data_to_reg_bytes", data |-> d] : d \in SBData}

DataToRegBytes ==
    /\ arg.fn = "data_to_reg_bytes"
    /\ ret = NoRet
    /\ ret' = data_to_reg_bytes(arg.data)
    /\ UNCHANGED <<arg, exceptHelper>>

----------------------------------------------------------------------------
(* Native types and values, as the debugger reports them (lldb.SBType and  *)
(* lldb.SBValue).  Text that the code searches is a sequence of characters. *)

Basic(code, name) == [kind |-> "basic", code |-> code, name |-> name]

ArrayType(name, elem) == [kind |-> "array", name |-> name, elem |-> elem]

PointerType(name) == [kind |-> "pointer", name |-> name]

Typedef(name, target) == [kind |-> "typedef", name |-> name, target |-> target]

\* Struct, union and enumeration types have no basic type.
Aggregate(name) == [kind |-> "aggregate", name |-> name]

GetBasicType(t) == IF t.kind = "basic" THEN t.code ELSE "eBasicTypeInvalid"

\* while type.IsTypedefType(): type = type.GetTypedefedType()
RECURSIVE GetTypedefedTypes(_)
GetTypedefedTypes(t) ==
    IF t.kind = "typedef" THEN GetTypedefedTypes(t.target) ELSE t

\* sub in text
Contains(text, sub) ==
    \E i \in 1..(Len(text) - Len(sub) + 1) :
        SubSeq(text, i, i + Len(sub) - 1) = sub

\* text.startswith(prefix)
startswith(text, prefix) ==
    Len(text) >= Len(prefix) /\ SubSeq(text, 1, Len(prefix)) = prefix

W_const == <<"c", "o", "n", "s", "t", " ">>

W_char == <<"c", "h", "a", "r">>

W_wchar_t == <<"w", "c", "h", "a", "r", "_", "t">>

W_unsigned == <<"u", "n", "s", "i", "g", "n", "e", "d", " ">>

W_short == <<"s", "h", "o", "r", "t">>

W_int == <<"i", "n", "t">>

W_long == <<"l", "o", "n", "g">>

W_bool == <<"b", "o", "o", "l">>

W_float == <<"f", "l", "o", "a", "t">>

W_Point == <<"P", "o", "i", "n", "t">>

W_dim2 == <<"[", "2", "]">>

W_dim3 == <<"[", "3", "]">>

\* The escape that marks a non-printable character in a rendered value.
W_escape == <<"\\", "x">>

\* bytes(int(child) for child in children): every element must be a byte.
to_bytes(val) ==
    IF \E i \in 1..Len(val.children) : val.children[i] > 255
    THEN Raised(<<"bytes must be in range(0, 256)">>)
    ELSE Returned(val.children, "none")

\* The code points of a byte string in an encoding, or the decoding error.
\* UTF-16 and UTF-32 without byte order mark are little-endian here.
RECURSIVE CodeUnits(_, _)
CodeUnits(bs, width) ==
    IF Len(bs) < width THEN <<>>
    ELSE <<from_bytes(SubSeq(bs, 1, width), "little")>>
             \o CodeUnits(SubSeq(bs, width + 1, Len(bs)), width)

decode(bs, encoding) ==
    LET width == IF encoding = "utf-8" THEN 1
                 ELSE IF encoding = "utf-16" THEN 2 ELSE 4
        units == CodeUnits(bs, width)
        limit == IF encoding = "utf-8" THEN 127
                 ELSE IF encoding = "utf-16" THEN 65535 ELSE 1114111
    IN  IF \/ Len(bs) % width # 0
           \/ \E i \in 1..Len(units) :
                 units[i] > limit \/ units[i] \in 55296..57343
        THEN Raised(<<"UnicodeDecodeError">>)
        ELSE Returned(units, "none")

to_string(val, encoding) ==
    LET b == to_bytes(val)
    IN  IF b.err # <<>> THEN b ELSE decode(b.val, encoding)

to_bool_list(val) ==
    Returned([i \in 1..Len(val.children) |-> val.children[i] # 0], "none")

to_int_list(val) == Returned(val.children, "none")

to_short_list(val) == Returned(val.children, "none")

\* A result with its schema tag, or the exception of the conversion.
Tagged(r, schema) == IF r.err # <<>> THEN r ELSE Returned(r.val, schema)

NoSchema == "None"

\* The second half of convert_value: strings, arrays and pointers (from the
\* comment 'This seems like a bit of a hack' to the final raise).
convert_value_shape(expr, val, schema, mm) ==
    LET type == GetTypedefedTypes(val.type)
    IN  IF startswith(type.name, W_const \o W_char \o <<"[">>)
        THEN Returned(val.summary, "STRING")
        ELSE IF startswith(type.name, W_const \o W_wchar_t \o <<"[">>)
        THEN Returned(val.summary, "STRING")
        ELSE IF type.kind = "array"
        THEN LET etype == GetTypedefedTypes(type.elem)
                 ecode == GetBasicType(etype)
                 unconvertible ==
                     Raised(<<"Cannot convert (", schema, "): '", expr,
                              "', value='", val.str, "'">>)
             IN  IF ecode = "eBasicTypeBool"
                 THEN Tagged(to_bool_list(val), "BOOL_ARR")
                 ELSE IF ecode \in {"eBasicTypeChar", "eBasicTypeSignedChar",
                                    "eBasicTypeUnsignedChar"}
                 THEN IF schema = "BYTE_ARR" THEN Tagged(to_bytes(val), schema)
                      ELSE IF schema = "CHAR_ARR"
                      THEN Tagged(to_string(val, "utf-8"), schema)
                      ELSE Tagged(to_string(val, "utf-8"), "STRING")
                 ELSE IF ecode \in {"eBasicTypeShort", "eBasicTypeUnsignedShort"}
                 THEN IF schema = NoSchema
                      THEN IF etype.name = W_wchar_t
                           THEN Tagged(to_string(val, "utf-16"), "STRING")
                           ELSE Tagged(to_int_list(val), "SHORT_ARR")
                      ELSE IF schema = "CHAR_ARR"
                      THEN Tagged(to_string(val, "utf-16"), schema)
                      ELSE Tagged(to_int_list(val), schema)
                 ELSE IF ecode \in {"eBasicTypeSignedWChar",
                                    "eBasicTypeUnsignedWChar"}
                 THEN IF schema # NoSchema /\ schema # "CHAR_ARR"
                      THEN Tagged(to_short_list(val), schema)
                      ELSE Tagged(to_string(val, "utf-16"), "STRING")
                 ELSE IF ecode \in {"eBasicTypeInt", "eBasicTypeUnsignedInt"}
                 THEN IF schema = NoSchema
                      THEN IF etype.name = W_wchar_t
                           THEN Tagged(to_string(val, "utf-32"), "STRING")
                           ELSE Tagged(to_int_list(val), "INT_ARR")
                      ELSE IF schema = "CHAR_ARR"
                      THEN Tagged(to_string(val, "utf-32"), schema)
                      ELSE Tagged(to_int_list(val), schema)
                 ELSE IF ecode \in {"eBasicTypeLong", "eBasicTypeUnsignedLong",
                                    "eBasicTypeLongLong",
                                    "eBasicTypeUnsignedLongLong"}
                 THEN IF schema # NoSchema
                      THEN Tagged(to_int_list(val), schema)
                      ELSE Tagged(to_int_list(val), "LONG_ARR")
                 ELSE unconvertible
        ELSE IF type.kind = "pointer"
        THEN LET offset == data_to_int(val.data)
             IN  IF offset.err # <<>> THEN offset
                 ELSE IF mm = ""
                 THEN Raised(<<"No memory mapper">>)
                 ELSE Returned(map([mm |-> mm], offset.val), "ADDRESS")
        ELSE Raised(<<"Cannot convert (", schema, "): '", expr, "', value='",
                      val.str, "'">>)

\* Fault: an unsigned short is widened to the tag of int.
convert_value_unsigned_short_as_int(expr, val, schema, mm) ==
    LET type == GetTypedefedTypes(val.type)
        code == GetBasicType(type)
    IN  IF code = "eBasicTypeVoid" THEN Returned(None, "VOID")
        ELSE IF code \in {"eBasicTypeChar", "eBasicTypeSignedChar",
                          "eBasicTypeUnsignedChar"}
        THEN IF ~val.hasvalue
             THEN Raised(<<"argument of type 'NoneType' is not iterable">>)
             ELSE IF ~Contains(val.value, W_escape)
             THEN Returned(val.unsigned, "CHAR")
             ELSE Returned(val.unsigned, "BYTE")
        ELSE IF code = "eBasicTypeShort"
        THEN Tagged(data_to_int(val.data), "SHORT")
        ELSE IF code \in {"eBasicTypeInt", "eBasicTypeUnsignedInt",
                          "eBasicTypeUnsignedShort"}
        THEN Tagged(data_to_int(val.data), "INT")
        ELSE IF code \in {"eBasicTypeLong", "eBasicTypeUnsignedLong"}
        THEN Tagged(data_to_int(val.data), "LONG")
        ELSE IF code \in {"eBasicTypeLongLong", "eBasicTypeUnsignedLongLong"}
        THEN Tagged(data_to_int(val.data), "LONG")
        ELSE IF code = "eBasicTypeBool"
        THEN Returned(val.hasvalue /\ val.value # <<>>, "BOOL")
        ELSE convert_value_shape(expr, val, schema, mm)

convert_value(expr, val, schema, mm) ==
    LET type == GetTypedefedTypes(val.type)
        code == GetBasicType(type)
    IN  IF code = "eBasicTypeVoid" THEN Returned(None, "VOID")
        ELSE IF code \in {"eBasicTypeChar", "eBasicTypeSignedChar",
                          "eBasicTypeUnsignedChar"}
        THEN IF ~val.hasvalue
             THEN Raised(<<"argument of type 'NoneType' is not iterable">>)
             ELSE IF ~Contains(val.value, W_escape)
             THEN Returned(val.unsigned, "CHAR")
             ELSE Returned(val.unsigned, "BYTE")
        ELSE IF code \in {"eBasicTypeShort", "eBasicTypeUnsignedShort"}
        THEN Tagged(data_to_int(val.data), "SHORT")
        ELSE IF code \in {"eBasicTypeInt", "eBasicTypeUnsignedInt"}
        THEN Tagged(data_to_int(val.data), "INT")
        ELSE IF code \in {"eBasicTypeLong", "eBasicTypeUnsignedLong"}
        THEN Tagged(data_to_int(val.data), "LONG")
        ELSE IF code \in {"eBasicTypeLongLong", "eBasicTypeUnsignedLongLong"}
        THEN Tagged(data_to_int(val.data), "LONG")
        ELSE IF code = "eBasicTypeBool"
        THEN Returned(val.hasvalue /\ val.value # <<>>, "BOOL")
        ELSE convert_value_shape(expr, val, schema, mm)

----------------------------------------------------------------------------
(* The values convert_value is applied to. *)

\* Depth of the typedef chains.
MaxTypedefs == 1

RECURSIVE Typedefs(_, _)
Typedefs(t, n) ==
    IF n = 0 THEN t ELSE Typedef(<<"T">>, Typedefs(t, n - 1))

Aliases(types) == {Typedefs(t, n) : t \in types, n \in 0..MaxTypedefs}

T_void == Basic("eBasicTypeVoid", <<"v", "o", "i", "d">>)

CharTypes ==
    {Basic("eBasicTypeChar", W_char),
     Basic("eBasicTypeSignedChar", <<"s", "i", "g", "n", "e", "d", " ">> \o W_char),
     Basic("eBasicTypeUnsignedChar", W_unsigned \o W_char)}

ShortTypes ==
    {Basic("eBasicTypeShort", W_short),
     Basic("eBasicTypeUnsignedShort", W_unsigned \o W_short)}

IntTypes ==
    {Basic("eBasicTypeInt", W_int), Basic("eBasicTypeUnsignedInt", W_unsigned \o W_int)}

LongTypes ==
    {Basic("eBasicTypeLong", W_long),
     Basic("eBasicTypeUnsignedLong", W_unsigned \o W_long),
     Basic("eBasicTypeLongLong", W_long \o <<" ">> \o W_long),
     Basic("eBasicTypeUnsignedLongLong", W_unsigned \o W_long \o <<" ">> \o W_long)}

T_bool == Basic("eBasicTypeBool", W_bool)

\* Element types named wchar_t: 16-bit and 32-bit wide characters.
WideTypes ==
    {Basic("eBasicTypeShort", W_wchar_t), Basic("eBasicTypeInt", W_wchar_t),
     Basic("eBasicTypeSignedWChar", W_wchar_t),
     Basic("eBasicTypeUnsignedWChar", W_wchar_t)}

\* Shapes the conversion does not cover.
FloatTypes ==
    {Basic("eBasicTypeFloat", W_float),
     Basic("eBasicTypeDouble", <<"d", "o", "u", "b", "l", "e">>)}

AggregateTypes == {Aggregate(W_Point), Aggregate(<<"U">>)}

IntegerTypes == ShortTypes \cup IntTypes \cup LongTypes

ScalarTypes == {T_void, T_bool} \cup CharTypes \cup IntegerTypes

\* element[2] and const element[2]
ArraysOf(elems) ==
    {ArrayType(q \o e.name \o W_dim2, e) : e \in elems, q \in {<<>>, W_const}}

\* element[2][3] and const element[2][3]: the elements are arrays.
ArraysOfArrays(elems) ==
    {ArrayType(q \o e.name \o W_dim2 \o W_dim3,
               ArrayType(q \o e.name \o W_dim3, e)) :
         e \in elems, q \in {<<>>, W_const}}

ArrayTypes ==
    ArraysOf({T_bool, Typedefs(T_bool, 1)} \cup CharTypes \cup IntegerTypes
             \cup WideTypes \cup FloatTypes \cup AggregateTypes)
        \cup ArraysOfArrays({Basic("eBasicTypeChar", W_char),
                             Basic("eBasicTypeInt", W_int)})

PointerTypes == {PointerType(W_int \o <<" ", "*">>)}

\* Element values of an array value: NUL, 'A', the largest byte, and a
\* 16-bit code.
ChildValues == {0, 65, 255, 256}

ChildSeqs == UNION {[1..n -> ChildValues] : n \in 0..MaxBytes}

SchemaHints == {NoSchema, "BYTE_ARR", "CHAR_ARR", "SHORT_ARR"}

Exprs == {"x", "p->q"}

\* GetSummary() of an array of characters: the code units up to the first
\* NUL, between double quotes (code 34).
GetSummary(children) ==
    LET nuls == {i \in 1..Len(children) : children[i] = 0}
        n == IF nuls = {} THEN Len(children)
             ELSE (CHOOSE i \in nuls : \A j \in nuls : i <= j) - 1
    IN  <<34>> \o SubSeq(children, 1, n) \o <<34>>

\* An SBValue: its type, GetValue(), GetValueAsUnsigned(), data,
\* GetSummary(), str() (a description in parentheses) and the values of its
\* children.
SBValue(type, hasvalue, value, unsigned, data, desc, children) ==
    [type |-> type, hasvalue |-> hasvalue, value |-> value,
     unsigned |-> unsigned, data |-> data, summary |-> GetSummary(children),
     str |-> "(" \o desc \o ")", children |-> children]

NoData == [byte_order |-> "eByteOrderLittle", uint8s |-> <<>>]

\* The renderings of a character: printable, and escaped.
CharValues ==
    {[value |-> <<"'", "a", "'">>, unsigned |-> 97],
     [value |-> <<"'", "\\", "x", "0", "1", "'">>, unsigned |-> 1]}

BoolValues ==
    {[value |-> <<"t", "r", "u", "e">>, unsigned |-> 1],
     [value |-> <<"f", "a", "l", "s", "e">>, unsigned |-> 0]}

SBValues ==
    {SBValue(t, FALSE, <<>>, 0, NoData, "void", <<>>) : t \in Aliases({T_void})}
    \cup {SBValue(t, TRUE, c.value, c.unsigned,
                  [byte_order |-> "eByteOrderLittle", uint8s |-> <<c.unsigned>>],
                  "char", <<>>) : t \in Aliases(CharTypes), c \in CharValues}
    \cup {SBValue(t, TRUE, <<"5">>, 5, d, "integer", <<>>) :
              t \in Aliases(IntegerTypes), d \in SBData}
    \cup {SBValue(t, TRUE, b.value, b.unsigned,
                  [byte_order |-> "eByteOrderLittle", uint8s |-> <<b.unsigned>>],
                  "bool", <<>>) : t \in Aliases({T_bool}), b \in BoolValues}
    \cup {SBValue(t, TRUE, <<"1", ".", "5">>, 1, d, "floating", <<>>) :
              t \in Aliases(FloatTypes),
              d \in {x \in SBData : Len(x.uint8s) = MaxBytes}}
    \cup {SBValue(t, FALSE, <<>>, 0, NoData, "aggregate", <<1, 2>>) :
              t \in Aliases(AggregateTypes)}
    \cup {SBValue(t, FALSE, <<>>, 0, NoData, "array", c) :
              t \in Aliases(ArrayTypes), c \in ChildSeqs}
    \cup {SBValue(t, TRUE, <<"0", "x", "1">>, 1, d, "pointer", <<>>) :
              t \in Aliases(PointerTypes), d \in SBData}

ConvertArgs ==
    {c \in [fn : {"convert_value"}, expr : Exprs, val : SBValues,
             schema : SchemaHints, mm : MapperSpaces \cup {""}] :
         GetTypedefedTypes(c.val.type).kind # "pointer" => c.mm = "ram"}

\* eval_value / convert_value applied to an evaluated expression.
ConvertValue ==
    /\ arg.fn = "convert_value"
    /\ ret = NoRet
    /\ ret' = convert_value(arg.expr, arg.val, arg.schema, arg.mm)
    /\ UNCHANGED <<arg, exceptHelper>>

----------------------------------------------------------------------------
(* ghidra util wait-stopped.  The handler is a function of its arguments    *)
(* and of what it observes while it runs: the process returned by every    *)
(* util.get_process() and the clock read after every sleep.  Time is in     *)
(* tenths of a second, measured from the first reading of the clock.        *)

\* The StateType enumerators the lldb module defines.
LldbStateTypes ==
    {"eStateInvalid", "eStateUnloaded", "eStateConnected", "eStateAttaching",
     "eStateLaunching", "eStateStopped", "eStateRunning", "eStateStepping",
     "eStateCrashed", "eStateDetached", "eStateExited", "eStateSuspended"}

\* lldb.<name>: the enumerator, or the AttributeError of a name the module
\* does not define.
lldb_attr(name) ==
    IF name \in LldbStateTypes THEN Returned(name, "none")
    ELSE Raised(<<"module 'lldb' has no attribute '", name, "'">>)

\* int(text) of a decimal numeral with an optional sign.
RECURSIVE DecimalValue(_)
DecimalValue(ds) ==
    IF ds = <<>> THEN 0
    ELSE 10 * DecimalValue(SubSeq(ds, 1, Len(ds) - 1))
             + (CHOOSE d \in 0..9 : Digits[d + 1] = ds[Len(ds)])

int(text) ==
    LET neg == text # <<>> /\ text[1] = "-"
        ds == IF neg THEN Tail(text) ELSE text
    IN  IF ds = <<>> \/ \E i \in 1..Len(ds) :
                            \A d \in 0..9 : Digits[d + 1] # ds[i]
        THEN Raised(<<"invalid literal for int() with base 10: ", text>>)
        ELSE Returned(IF neg THEN 0 - DecimalValue(ds) ELSE DecimalValue(ds),
                      "none")

\* Number of polls a run of the handler is observed for.
MaxPolls == 3

\* The loop, entered for the i-th time with the process p; polls are the
\* observations [p, elapsed] made after each sleep.  A run that is still
\* polling when the observations end is reported as such.
RECURSIVE wait_stopped_loop(_, _, _, _)
wait_stopped_loop(p, i, polls, timeout) ==
    LET running == lldb_attr("eStateRunnig")
    IN  IF p = "None"
        THEN Raised(<<"'NoneType' object has no attribute 'state'">>)
                 @@ [polls |-> i - 1, polling |-> FALSE]
        ELSE IF running.err # <<>>
        THEN running @@ [polls |-> i - 1, polling |-> FALSE]
        ELSE IF p # running.val
        THEN Returned(<<"Finished wait. State=", p>>, "none")
                 @@ [polls |-> i - 1, polling |-> FALSE]
        ELSE IF i > Len(polls)
        THEN [done |-> TRUE, err |-> <<>>, val |-> <<>>, schema |-> "none",
              polls |-> i - 1, polling |-> TRUE]
        ELSE IF polls[i].elapsed > timeout * 10
        THEN Raised(<<"Timed out waiting for thread to stop">>)
                 @@ [polls |-> i, polling |-> FALSE]
        ELSE wait_stopped_loop(polls[i].p, i + 1, polls, timeout)

ghidra_util_wait_stopped(args, p0, polls) ==
    LET timeout == IF Len(args) = 0 THEN Returned(1, "none")
                   ELSE IF Len(args) = 1 THEN int(args[1])
                   ELSE Raised(<<"Usage: ghidra util wait-stopped [SECONDS]">>)
    IN  IF timeout.err # <<>>
        THEN timeout @@ [polls |-> 0, polling |-> FALSE]
        ELSE wait_stopped_loop(p0, 1, polls, timeout.val)

WaitArgLists ==
    {<<>>, <<<<"0">>>>, <<<<"2">>>>, <<<<"-", "1">>>>, <<<<"x">>>>,
     <<<<"1">>, <<"2">>>>}

\* Time that passes between two readings of the clock: the sleep of a tenth
\* of a second, or a longer pause of the host.
PollSteps == {1, 7}

Observed == UNION {[1..n -> {"eStateRunning", "eStateStopped"}] : n \in 0..MaxPolls}

WaitArgs ==
    {[fn |-> "wait_stopped", args |-> a, p0 |-> p,
      polls |-> [i \in 1..Len(o) |-> [p |-> o[i], elapsed |-> i * st]]] :
         a \in WaitArgLists, p \in {"None", "eStateRunning", "eStateStopped"},
         o \in Observed, st \in PollSteps}

WaitStopped ==
    /\ arg.fn = "wait_stopped"
    /\ ret = NoRet
    /\ ret' = ghidra_util_wait_stopped(arg.args, arg.p0, arg.polls)
    /\ UNCHANGED <<arg, exceptHelper>>

----------------------------------------------------------------------------
(* The specification of the helpers: one call of one helper. *)

HelperInit ==
    /\ SessionInit
    /\ QuantIdle
    /\ PathIdle
    /\ SyncIdle
    /\ arg \in RegionKeyArgs \cup RegBytesArgs \cup ConvertArgs \cup WaitArgs
    /\ ret = NoRet

HelperNext ==
    \/ RegionKey
    \/ DataToRegBytes
    \/ ConvertValue
    \/ WaitStopped

SpecHelper == HelperInit /\ [][HelperNext]_<<vars, otherVars>>

----------------------------------------------------------------------------
(* Claims about the helpers *)

LowerHex == {Digits[i] : i \in 1..16}

\* The 16-bit words a sequence of sixteen hexadecimal digits denotes.
HexWords(ds) ==
    [k \in 1..4 |->
        LET v(i) == CHOOSE d \in 0..15 : Digits[d + 1] = ds[4 * (k - 1) + i]
        IN  ((v(1) * 16 + v(2)) * 16 + v(3)) * 16 + v(4)]

RegionKeyWellFormed ==
    /\ \A i \in 1..Len(ret.digits) : ret.digits[i] \in LowerHex
    /\ ret.key = "[" \o JoinDigits(ret.digits) \o "]"
    /\ Len(ret.key) = Len(ret.digits) + 2

\* C21: for every region start address a 64-bit target can produce, the
\* memory region key is exactly eight lowercase hexadecimal digits,
\* zero-padded, inside brackets.
C21_RegionKeyFixedWidth ==
    (arg.fn = "region_key" /\ ret.done)
        => RegionKeyWellFormed /\ Len(ret.digits) = 8

\* C21 (amended): the key is the start in lowercase hexadecimal inside
\* brackets, zero-padded to at least eight digits: exactly eight digits for
\* a start below 2^32, and the nine to sixteen significant digits of a
\* larger start; the digits denote the start.
C21_RegionKeyMinWidth ==
    (arg.fn = "region_key" /\ ret.done)
        => /\ RegionKeyWellFormed
           /\ Len(ret.digits) \in 8..16
           /\ Len(ret.digits) = 8 <=> (arg.start[1] = 0 /\ arg.start[2] = 0)
           /\ Len(ret.digits) > 8 => ret.digits[1] # "0"
           /\ HexWords(ZeroPadDigits(ret.digits, 16)) = arg.start
           /\ (arg.start[1] = 0 /\ arg.start[2] = 0 /\ arg.start[3] <= 1)
                 => ret.key = REGION_KEY_PATTERN(arg.start[3] * WordBase
                                                     + arg.start[4])

\* A start with all 64 bits in use has been formatted.
C21_Witness ==
    /\ arg.fn = "region_key"
    /\ ret.done
    /\ arg.start = [i \in 1..4 |-> WordBase - 1]
    /\ ret.key = "[ffffffffffffffff]"

\* A start below 2^32 has been formatted.
C21_WitnessSmall ==
    /\ arg.fn = "region_key"
    /\ ret.done
    /\ arg.start = <<0, 0, 1, 43981>>
    /\ ret.key = "[0001abcd]"

SupportedOrders == {"eByteOrderBig", "eByteOrderLittle"}

\* The value of a byte sequence read most significant byte first.
BigEndianValue(bs) == FoldLeft(LAMBDA acc, b : acc * 256 + b, 0, bs)

\* C22: for both supported byte orders data_to_reg_bytes returns the bytes
\* in big-endian order (unchanged for big-endian data, reversed for
\* little-endian data): read as a big-endian integer they give the value
\* data_to_int decodes from the source, and reversing them again for a
\* little-endian source gives back the original byte sequence.
C22_RegBytesBigEndian ==
    (/\ arg.fn = "data_to_reg_bytes"
     /\ ret.done
     /\ arg.data.byte_order \in SupportedOrders)
        => /\ ret.err = <<>>
           /\ BigEndianValue(ret.val) = data_to_int(arg.data).val
           /\ arg.data.byte_order = "eByteOrderBig"
                 => ret.val = arg.data.uint8s
           /\ arg.data.byte_order = "eByteOrderLittle"
                 => /\ ret.val = reversed(arg.data.uint8s)
                    /\ reversed(ret.val) = arg.data.uint8s

\* The bytes 01 80 of a little-endian register have been canonicalized.
C22_Witness ==
    /\ arg.fn = "data_to_reg_bytes"
    /\ ret.done
    /\ arg.data = [byte_order |-> "eByteOrderLittle", uint8s |-> <<1, 128>>]
    /\ ret.val = <<128, 1>>

C22_WitnessBig ==
    /\ arg.fn = "data_to_reg_bytes"
    /\ ret.done
    /\ arg.data = [byte_order |-> "eByteOrderBig", uint8s |-> <<1, 128>>]
    /\ ret.val = <<1, 128>>

\* The schema tag the specification gives for each supported scalar type.
ScalarTags(code) ==
    CASE code = "eBasicTypeVoid" -> {"VOID"}
      [] code \in {"eBasicTypeChar", "eBasicTypeSignedChar",
                   "eBasicTypeUnsignedChar"} -> {"CHAR", "BYTE"}
      [] code \in {"eBasicTypeShort", "eBasicTypeUnsignedShort"} -> {"SHORT"}
      [] code \in {"eBasicTypeInt", "eBasicTypeUnsignedInt"} -> {"INT"}
      [] code \in {"eBasicTypeLong", "eBasicTypeUnsignedLong",
                   "eBasicTypeLongLong", "eBasicTypeUnsignedLongLong"}
             -> {"LONG"}
      [] code = "eBasicTypeBool" -> {"BOOL"}

\* The types of the same width and the other signedness.
Siblings(t) ==
    IF t \in CharTypes THEN CharTypes
    ELSE IF t \in ShortTypes THEN ShortTypes
    ELSE IF t \in IntTypes THEN IntTypes
    ELSE IF t \in {Basic("eBasicTypeLong", W_long),
                   Basic("eBasicTypeUnsignedLong", W_unsigned \o W_long)}
    THEN {Basic("eBasicTypeLong", W_long),
          Basic("eBasicTypeUnsignedLong", W_unsigned \o W_long)}
    ELSE IF t \in LongTypes
    THEN LongTypes \ {Basic("eBasicTypeLong", W_long),
                      Basic("eBasicTypeUnsignedLong", W_unsigned \o W_long)}
    ELSE {t}

\* A supported scalar value has been converted; the raw bytes of an integer
\* are in one of the two supported byte orders.
ScalarConverted ==
    /\ arg.fn = "convert_value"
    /\ ret.done
    /\ GetTypedefedTypes(arg.val.type) \in ScalarTypes
    /\ GetTypedefedTypes(arg.val.type) \in IntegerTypes
          => arg.val.data.byte_order \in SupportedOrders

\* C23: for the supported scalar native types convert_value is a total
\* deterministic function of (basic type code, rendered value, raw bytes,
\* byte order): it returns, with the tag of the type (VOID; CHAR or BYTE;
\* SHORT; INT; LONG for long and long long; BOOL); the signed and unsigned
\* variants of one width get the same tag; and a call that differs only in
\* the expression text, the schema hint, the mapper, the typedef chain or
\* the description of the value gives the same result.
C23_ScalarTotalDeterministic ==
    ScalarConverted
        => LET type == GetTypedefedTypes(arg.val.type)
           IN  /\ ret.err = <<>>
               /\ ret.schema \in ScalarTags(type.code)
               /\ \A t \in Siblings(type) :
                     convert_value(arg.expr, [arg.val EXCEPT !.type = t],
                                   arg.schema, arg.mm).schema = ret.schema
               /\ \A e \in Exprs, h \in SchemaHints, m \in MapperSpaces,
                     n \in 0..MaxTypedefs, d \in {"a", "b"} :
                     convert_value(e, [arg.val EXCEPT
                                           !.type = Typedefs(type, n),
                                           !.summary = <<>>, !.str = d],
                                   h, m) = ret

\* An unsigned short held in two little-endian bytes has been converted.
C23_Witness ==
    /\ ScalarConverted
    /\ GetTypedefedTypes(arg.val.type).code = "eBasicTypeUnsignedShort"
    /\ arg.val.data = [byte_order |-> "eByteOrderLittle", uint8s |-> <<1, 128>>]
    /\ ret.schema = "SHORT"
    /\ ret.val = 128 * 256 + 1

\* An escaped character behind a typedef has been converted to a byte.
C23_WitnessByte ==
    /\ ScalarConverted
    /\ arg.val.type.kind = "typedef"
    /\ GetTypedefedTypes(arg.val.type).code = "eBasicTypeSignedChar"
    /\ ret.schema = "BYTE"

\* The element types convert_value has an array conversion for.
ElementCodes ==
    {"eBasicTypeBool", "eBasicTypeChar", "eBasicTypeSignedChar",
     "eBasicTypeUnsignedChar", "eBasicTypeShort", "eBasicTypeUnsignedShort",
     "eBasicTypeSignedWChar", "eBasicTypeUnsignedWChar", "eBasicTypeInt",
     "eBasicTypeUnsignedInt", "eBasicTypeLong", "eBasicTypeUnsignedLong",
     "eBasicTypeLongLong", "eBasicTypeUnsignedLongLong"}

\* A type shape outside the supported set: a struct or union, a floating
\* point type, or an array whose elements are of an unsupported type.
Unsupported(t) ==
    \/ t.kind = "aggregate"
    \/ t \in FloatTypes
    \/ /\ t.kind = "array"
       /\ GetBasicType(GetTypedefedTypes(t.elem)) \notin ElementCodes

\* C24: for every native type shape outside the supported set convert_value
\* fails with a conversion error that carries the expression text and the
\* rendered value, and never returns a value.
C24_UnsupportedFails ==
    (/\ arg.fn = "convert_value"
     /\ ret.done
     /\ Unsupported(GetTypedefedTypes(arg.val.type)))
        => /\ ret.err # <<>>
           /\ ret.err[1] = "Cannot convert ("
           /\ arg.expr \in Range(ret.err)
           /\ arg.val.str \in Range(ret.err)

\* The observations of a run of wait-stopped: the process before the loop
\* (index 0) and after each sleep.
ObservedAt(i) == IF i = 0 THEN arg.p0 ELSE arg.polls[i].p

\* The timeout of a run with well-formed arguments, in tenths of a second.
TimeoutTenths == IF arg.args = <<>> THEN 10 ELSE 10 * int(arg.args[1]).val

\* The polls made after more than the timeout has elapsed.
LatePolls == {i \in 1..Len(arg.polls) : arg.polls[i].elapsed > TimeoutTenths}

\* C26: wait-stopped always terminates: it returns once the process is
\* observed not running, and if the process keeps running it fails with the
\* timeout error at the first poll made after more than the timeout (1
\* second by default) has elapsed; it polls no further than that.
C26_WaitStoppedBounded ==
    (/\ arg.fn = "wait_stopped"
     /\ ret.done
     /\ arg.p0 # "None"
     /\ arg.args = <<>> \/ (Len(arg.args) = 1 /\ int(arg.args[1]).err = <<>>))
        => /\ \A i \in 0..Len(arg.polls) :
                 (/\ ObservedAt(i) # "eStateRunning"
                  /\ \A j \in 0..(i - 1) : ObservedAt(j) = "eStateRunning"
                  /\ \A j \in LatePolls : i < j)
                     => ret.err = <<>> /\ ~ret.polling /\ ret.polls = i
           /\ \A i \in LatePolls :
                 (/\ \A j \in LatePolls : i <= j
                  /\ \A j \in 0..i : ObservedAt(j) = "eStateRunning")
                     => /\ ret.err = <<"Timed out waiting for thread to stop">>
                        /\ ret.polls = i
           /\ ret.polling => LatePolls = {}

----------------------------------------------------------------------------
(* Retention sets, order of enumeration, fallback region, locations *)

\* The pass made last, when it is a pass of a category synchronizer.
SyncPass == Len(hist) > 0 /\ hist[Len(hist)].routine \in Synchronizers

\* The insert calls of the last pass that put a child element into obj.
ChildInserts(obj) ==
    {j \in 1..Len(LastCalls) :
        /\ LastCalls[j].op = "insert"
        /\ LastCalls[j].obj = obj \o LastCalls[j].key}

\* C27: in every pass of a category synchronizer, the keys handed to a
\* retain-values call on a container are exactly the keys of the child
\* objects created and inserted under that container in the pass, and the
\* call is issued after every create, set-value and insert call of those
\* children.
C27_RetainKeysAreChildren ==
    SyncPass
        => \A i \in 1..Len(LastCalls) :
              LastCalls[i].op = "retain_values"
                 => LET obj == LastCalls[i].obj
                        keys == Range(LastCalls[i].keys)
                    IN  /\ keys = {LastCalls[j].key : j \in ChildInserts(obj)}
                        /\ \A j \in ChildInserts(obj) :
                              \E k \in 1..(j - 1) :
                                 /\ LastCalls[k].op = "create_object"
                                 /\ LastCalls[k].obj = LastCalls[j].obj
                        /\ \A k \in 1..Len(LastCalls) :
                              (/\ LastCalls[k].op \in {"create_object",
                                                       "set_value", "insert"}
                               /\ \E key \in keys :
                                     LastCalls[k].obj = obj \o key)
                                 => k < i

\* A put-modules pass over two modules, one of them with two sections: the
\* Sections container and the Modules container are pruned.
C27_Witness ==
    /\ SyncPass
    /\ hist[Len(hist)].routine = "put_modules"
    /\ Len(hist[Len(hist)].host.live) = 2
    /\ \E i \in 1..Len(LastCalls) :
          /\ LastCalls[i].op = "retain_values"
          /\ Len(LastCalls[i].keys) = 2
          /\ LastCalls[i].obj # MODULES_PATTERN(hist[Len(hist)].host.pid)

\* A put-frames pass over two frames.
C27_WitnessFrames ==
    /\ SyncPass
    /\ hist[Len(hist)].routine = "put_frames"
    /\ Cardinality(ChildInserts(Container("put_frames",
                                          hist[Len(hist)].host))) = 2

\* An entity without the order of enumeration of its sections or locations.
Unordered(e) ==
    IF e.cat = "module" THEN [e EXCEPT !.sections = Range(@)]
    ELSE IF e.cat = "breakpoint" THEN [e EXCEPT !.locs = Range(@)]
    ELSE e

\* The last two passes were made by one synchronizer over the same entities,
\* which the host enumerated in a different order.
Reordered ==
    /\ TwoPasses
    /\ hist[1].input = hist[2].input
    /\ [hist[1].host EXCEPT !.live = <<>>] = [hist[2].host EXCEPT !.live = <<>>]
    /\ {Unordered(e) : e \in Range(hist[1].host.live)}
          = {Unordered(e) : e \in Range(hist[2].host.live)}
    /\ hist[1].host.live # hist[2].host.live

\* C28: the tree that results from a synchronization pass does not depend
\* on the order in which the host enumerates the live entities (threads,
\* frames, regions, modules, sections, breakpoints, the locations of a
\* breakpoint, watchpoints): two passes over the same entities in different
\* orders leave the same keys with the same values.
C28_OrderIndependent == Reordered => hist[2].tree = hist[1].tree

\* The calls of the last pass with the given operation on the given object.
CallsOn(op, obj) ==
    {i \in 1..Len(LastCalls) : LastCalls[i].op = op /\ LastCalls[i].obj = obj}

\* The last pass was put_regions while a thread was selected.
RegionsPassWithThread ==
    /\ SyncPass
    /\ hist[Len(hist)].routine = "put_regions"
    /\ hist[Len(hist)].host.sel # None

\* The enumeration of the regions was skipped, raised or found no region.
NoRegionFound ==
    \/ hist[Len(hist)].input # <<"ok">>
    \/ Live(hist[Len(hist)].host, "region") = <<>>

\* C29: a put-regions pass made while a thread is selected never hands an
\* empty key list to retain-values on the Memory container; when the
\* enumeration of the regions is skipped, raises or finds no region, the
\* pass creates and inserts exactly one region object, the one for the full
\* address space, and its key alone is retained.
C29_FallbackRegion ==
    RegionsPassWithThread
        => LET h == hist[Len(hist)].host
               memory == MEMORY_PATTERN(h.pid)
               full == REGION_PATTERN(h.pid, full_mem.start)
           IN  /\ CallsOn("retain_values", memory) # {}
               /\ \A i \in CallsOn("retain_values", memory) :
                     LastCalls[i].keys # <<>>
               /\ NoRegionFound
                     => /\ \A i \in CallsOn("retain_values", memory) :
                              LastCalls[i].keys
                                 = <<REGION_KEY_PATTERN(full_mem.start)>>
                        /\ Cardinality(CallsOn("create_object", full)) = 1
                        /\ Cardinality(CallsOn("insert", full)) = 1
                        /\ \A i \in 1..Len(LastCalls) :
                              LastCalls[i].op \in {"create_object", "insert"}
                                 => LastCalls[i].obj = full

\* The enumeration raised although the host has a live region, and the
\* fallback region replaced the region that the tree held before.
C29_Witness ==
    /\ RegionsPassWithThread
    /\ hist[Len(hist)].input = <<"raises">>
    /\ Live(hist[Len(hist)].host, "region") # <<>>
    /\ hist[Len(hist)].removed # {}
    /\ \E i \in CallsOn("retain_values",
                        MEMORY_PATTERN(hist[Len(hist)].host.pid)) :
          Len(LastCalls[i].keys) = 1

\* The enumeration was skipped.
C29_WitnessSkipped ==
    /\ RegionsPassWithThread
    /\ hist[Len(hist)].input = <<"skipped">>
    /\ CallsOn("insert", REGION_PATTERN(hist[Len(hist)].host.pid,
                                        full_mem.start)) # {}

\* The last pass was put_breakpoints.
BreakpointsPass ==
    /\ SyncPass
    /\ hist[Len(hist)].routine = "put_breakpoints"

\* The keys [1] to [n] of the locations of a breakpoint, in order.
LocationKeys(n) == [k \in 1..n |-> BREAK_LOC_KEY_PATTERN(k)]

\* C30: for each breakpoint with n locations, a put-breakpoints pass creates
\* and inserts one child object per location under the keys [1] to [n] of
\* the breakpoint object, calls retain-values on the breakpoint object once
\* with exactly those n keys, and issues that call before the retain-values
\* call on the Breakpoints container that keeps the key of the breakpoint.
C30_LocationsNested ==
    BreakpointsPass
        => LET h == hist[Len(hist)].host
               cont_path == PROC_BREAKS_PATTERN(h.pid)
           IN  \A b \in Range(Live(h, "breakpoint")) :
                  LET bpt_path == PROC_BREAK_PATTERN(h.pid, b.id)
                      n == Len(b.locs)
                  IN  /\ {LastCalls[j].key : j \in ChildInserts(bpt_path)}
                            = Range(LocationKeys(n))
                      /\ Cardinality(ChildInserts(bpt_path)) = n
                      /\ \A k \in 1..n :
                            Cardinality(CallsOn("create_object",
                                bpt_path \o BREAK_LOC_KEY_PATTERN(k))) = 1
                      /\ \A j \in ChildInserts(bpt_path) :
                            \E c \in CallsOn("create_object", LastCalls[j].obj) :
                               c < j
                      /\ Cardinality(CallsOn("retain_values", bpt_path)) = 1
                      /\ \A i \in CallsOn("retain_values", bpt_path) :
                            /\ LastCalls[i].keys = LocationKeys(n)
                            /\ \A j \in ChildInserts(bpt_path) : j < i
                            /\ \E c \in CallsOn("retain_values", cont_path) :
                                  /\ i < c
                                  /\ BREAKPOINT_KEY_PATTERN(b.id)
                                        \in Range(LastCalls[c].keys)
                            /\ \A c \in CallsOn("retain_values", cont_path) :
                                  i < c

\* A put-breakpoints pass over a breakpoint with two locations.
C30_Witness ==
    /\ BreakpointsPass
    /\ \E b \in Range(Live(hist[Len(hist)].host, "breakpoint")) :
          /\ Len(b.locs) = 2
          /\ CallsOn("retain_values",
                     PROC_BREAK_PATTERN(hist[Len(hist)].host.pid, b.id)) # {}

\* A put-breakpoints pass over two breakpoints, one with one location and
\* one with two.
C30_WitnessTwo ==
    /\ BreakpointsPass
    /\ {Len(b.locs) : b \in Range(Live(hist[Len(hist)].host, "breakpoint"))}
          = {1, 2}

\* The last pass was put_watchpoints.
WatchpointsPass ==
    /\ SyncPass
    /\ hist[Len(hist)].routine = "put_watchpoints"

\* The kinds the description of a watchpoint stands for.
KindsOf(w) ==
    IF Contains(get_description(w), W_type_rw) THEN "READ,WRITE"
    ELSE IF Contains(get_description(w), W_type_r) THEN "READ"
    ELSE "WRITE"

\* The set-value calls of the last pass on the key of the object.
SetValueCalls(obj, key) ==
    {i \in CallsOn("set_value", obj) : LastCalls[i].key = key}

\* C31: after a put-watchpoints pass the Kinds attribute of every live
\* watchpoint, which is the value of the last set-value call for it, is
\* 'READ,WRITE' when the description contains 'type = rw', 'READ' when it
\* contains 'type = r' but not 'type = rw', and 'WRITE' otherwise; for the
\* access types read, write and read-write these are READ, WRITE and
\* READ,WRITE.
C31_WatchpointKinds ==
    WatchpointsPass
        => \A w \in Range(Live(hist[Len(hist)].host, "watchpoint")) :
              LET wpt_path == PROC_WATCH_PATTERN(hist[Len(hist)].host.pid, w.id)
                  sets == SetValueCalls(wpt_path, "Kinds")
              IN  /\ sets # {}
                  /\ \A i \in sets :
                        (\A j \in sets : j <= i)
                           => LastCalls[i].val = KindsOf(w)
                  /\ [obj |-> wpt_path, key |-> "Kinds", val |-> KindsOf(w),
                      elem |-> FALSE] \in hist[Len(hist)].tree
                  /\ \A v \in hist[Len(hist)].tree :
                        (v.obj = wpt_path /\ v.key = "Kinds")
                           => v.val = KindsOf(w)
                  /\ KindsOf(w) = (CASE w.type = "rw" -> "READ,WRITE"
                                     [] w.type = "r" -> "READ"
                                     [] OTHER -> "WRITE")

\* A pass over a read-write watchpoint, whose Kinds attribute was set three
\* times.
C31_Witness ==
    /\ WatchpointsPass
    /\ \E w \in Range(Live(hist[Len(hist)].host, "watchpoint")) :
          /\ w.type = "rw"
          /\ Cardinality(SetValueCalls(
                 PROC_WATCH_PATTERN(hist[Len(hist)].host.pid, w.id),
                 "Kinds")) = 3

\* A pass over a write watchpoint that an earlier pass recorded as a read
\* watchpoint.
C31_WitnessWrite ==
    /\ TwoPasses
    /\ WatchpointsPass
    /\ \E w \in Range(Live(hist[2].host, "watchpoint")) :
          /\ w.type = "w"
          /\ [obj |-> PROC_WATCH_PATTERN(hist[1].host.pid, w.id),
              key |-> "Kinds", val |-> "READ", elem |-> FALSE]
                \in hist[1].tree

----------------------------------------------------------------------------
(* Claims about putmem and putval *)

\* The last pass was a putval with one argument whose value has an address.
PutvalPass ==
    /\ hist # <<>>
    /\ hist[Len(hist)].routine = "putval"
    /\ hist[Len(hist)].input[1] = 1
    /\ hist[Len(hist)].input[2]

\* The put-bytes calls of the last pass.
PutBytesCalls == {i \in 1..Len(LastCalls) : LastCalls[i].op = "put_bytes"}

\* C32: putval records the bytes [start, start + size) of the value: the
\* end of the range it hands to put_bytes is start + size, so that the
\* bytes written are those of the pages that contain this range.
C32_PutvalRange ==
    PutvalPass
        => LET h == hist[Len(hist)].host
               start == hist[Len(hist)].input[3]
               size == hist[Len(hist)].input[4]
               q == quantize_pages(start, start + size)
           IN  /\ putval_range(start, size) = <<start, start + size>>
               /\ \A i \in PutBytesCalls :
                     /\ LastCalls[i].val = FormatInt(q[2] - q[1])
                     /\ LastCalls[i].addr = AddrText(map(h, q[1]))

\* The range whose bytes the last pass asked the host to read, after the
\* quantization; <<0, 0>> if the pass did not get as far as put_bytes.
ReadRange ==
    LET in == hist[Len(hist)].input
    IN  IF hist[Len(hist)].routine = "putmem"
        THEN IF in[3] THEN quantize_pages(in[1], in[1] + in[2])
             ELSE <<in[1], in[1] + in[2]>>
        ELSE IF hist[Len(hist)].routine = "putval" /\ in[1] = 1 /\ in[2]
        THEN quantize_pages(putval_range(in[3], in[4])[1],
                            putval_range(in[3], in[4])[2])
        ELSE <<0, 0>>

\* The last pass was a putmem or a putval whose read of the memory failed.
ReadFailed ==
    /\ hist # <<>>
    /\ hist[Len(hist)].routine \in {"putmem", "putval"}
    /\ ReadRange[2] - ReadRange[1] > 0
    /\ ~hist[Len(hist)].input[Len(hist[Len(hist)].input)]

\* C34: when the read of the memory fails in putmem or putval, the command
\* fails with the error 'Cannot read memory', and neither a
\* create-overlay-space call nor a put-bytes call is issued, and the tree is
\* left as it was.
C34_ReadFailureWritesNothing ==
    ReadFailed
        => /\ hist[Len(hist)].err = "Cannot read memory"
           /\ \A i \in 1..Len(LastCalls) :
                 LastCalls[i].op \notin {"create_overlay_space", "put_bytes"}
           /\ hist[Len(hist)].removed = {}
           /\ Len(hist) = 2 => hist[2].tree = hist[1].tree

\* The read failed in a putval whose address the mapper places in an
\* overlay space.
C34_Witness ==
    /\ ReadFailed
    /\ hist[Len(hist)].routine = "putval"
    /\ hist[Len(hist)].host.mm # "ram"

\* The read failed in a putmem after a putmem that wrote bytes.
C34_WitnessPutmem ==
    /\ ReadFailed
    /\ Len(hist) = 2
    /\ hist[2].routine = "putmem"
    /\ \E i \in 1..Len(hist[1].calls) : hist[1].calls[i].op = "put_bytes"

----------------------------------------------------------------------------
(* Claims about the conversion of arrays and of booleans *)

\* convert_value was applied to an array of char, signed char or unsigned
\* char, whose elements are bytes.
CharArrayConverted ==
    /\ arg.fn = "convert_value"
    /\ ret.done
    /\ LET type == GetTypedefedTypes(arg.val.type)
       IN  /\ type.kind = "array"
           /\ GetBasicType(GetTypedefedTypes(type.elem))
                 \in {"eBasicTypeChar", "eBasicTypeSignedChar",
                      "eBasicTypeUnsignedChar"}
    /\ \A i \in 1..Len(arg.val.children) : arg.val.children[i] <= 255

\* C33: an array of character elements, whatever the name and the
\* qualifiers of its type, converts to its raw bytes with the tag BYTE_ARR
\* when the schema hint is BYTE_ARR, and otherwise, when its bytes are
\* UTF-8, to the string they encode.
C33_CharArrays ==
    CharArrayConverted
        => IF arg.schema = "BYTE_ARR"
           THEN ret = Returned(arg.val.children, "BYTE_ARR")
           ELSE (\A i \in 1..Len(arg.val.children) : arg.val.children[i] <= 127)
                   => /\ ret.err = <<>>
                      /\ ret.val = arg.val.children
                      /\ ret.schema \in {"STRING", "CHAR_ARR"}

\* The same for the arrays whose type name does not begin with 'const char['.
C33_CharArraysNotConst ==
    (CharArrayConverted
     /\ ~startswith(GetTypedefedTypes(arg.val.type).name,
                    W_const \o W_char \o <<"[">>))
        => IF arg.schema = "BYTE_ARR"
           THEN ret = Returned(arg.val.children, "BYTE_ARR")
           ELSE (\A i \in 1..Len(arg.val.children) : arg.val.children[i] <= 127)
                   => /\ ret.err = <<>>
                      /\ ret.val = arg.val.children
                      /\ ret.schema \in {"STRING", "CHAR_ARR"}

----------------------------------------------------------------------------
(* Claims about the recording flag and about a start that fails *)

\* The last command gave up the trace the session held before it.
TraceCleared == last.pre.trace # None /\ trace # last.pre.trace

\* C35: in every reachable state the flag _ghidra_tracing is true only if a
\* trace is held, and a command that clears the trace (stop, the close step
\* of restart, disconnect) sets the flag to false in the same step: it was
\* set to false after the trace was given up, and it is false afterwards
\* unless the command started a new trace.
C35_TracingOnlyWithTrace ==
    /\ tracing => trace # None
    /\ TraceCleared
          => /\ Has(last.calls, "set_convenience_variable")
             /\ last.calls[IndexOf(last.calls, "set_convenience_variable")].id = 0
             /\ trace = None => ~tracing
             /\ tracing => last.calls[Len(last.calls)]
                              = [op |-> "set_convenience_variable", id |-> 1]

\* A stop cleared the trace of a recording session.
C35_Witness ==
    /\ last.cmd = "stop"
    /\ last.pre.tracing
    /\ TraceCleared
    /\ ~tracing

\* A restart replaced the trace of a recording session and failed before it
\* had created the root object.
C35_WitnessRestart ==
    /\ last.cmd = "restart"
    /\ last.pre.tracing
    /\ TraceCleared
    /\ trace # None
    /\ ~tracing

\* The last command was a start or a restart that created the remote trace
\* and failed afterwards.
StartFailedAfterCreate ==
    /\ last.cmd \in {"start", "restart"}
    /\ last.err # ""
    /\ Has(last.calls, "create_trace")

\* C36: a start or restart that fails after the remote trace was created
\* (the schema document cannot be read, the creation of the root object
\* fails) leaves the session without a trace, so that a start that follows
\* is not rejected with 'Trace already started'.
C36_FailedStartHoldsNoTrace ==
    StartFailedAfterCreate
        => /\ trace = None
           /\ require_no_trace(Cur).err = ""

----------------------------------------------------------------------------
(* Claims about what put-all records *)

\* The last command was a put-all in an open transaction, none of whose
\* calls to the store failed.
PutAllRan ==
    /\ last.cmd = "put-all"
    /\ last.nargs = 0
    /\ last.pre.tx # None
    /\ last.fail = 0

\* C37: put-all records the default register bank of the selected frame:
\* among its calls there is a put-registers call, for the bank 'General
\* Purpose Registers', and it comes before the memory puts and before the
\* calls of the synchronizers.
C37_PutAllRegistersFirst ==
    PutAllRan
        => /\ last.err = ""
           /\ Has(last.calls, "put_registers")
           /\ \A i \in 1..Len(last.calls) :
                 last.calls[i].op # "put_registers"
                    => IndexOf(last.calls, "put_registers") < i

\* convert_value was applied to a native boolean.
BoolConverted ==
    /\ arg.fn = "convert_value"
    /\ ret.done
    /\ GetBasicType(GetTypedefedTypes(arg.val.type)) = "eBasicTypeBool"

\* C38: convert_value maps a native boolean to its truth value with the tag
\* BOOL: false for a boolean that is false (its unsigned value is 0) and
\* true for one that is true.
C38_BoolTruthValue ==
    BoolConverted => ret = Returned(arg.val.unsigned # 0, "BOOL")

----------------------------------------------------------------------------
(* Claims about the Processes container *)

\* The last pass was put_processes.
ProcessesPass ==
    /\ SyncPass
    /\ hist[Len(hist)].routine = "put_processes"

\* The keys of the elements of a container in the tree after the last pass.
ElementKeys(obj) ==
    {v.key : v \in {u \in hist[Len(hist)].tree : u.obj = obj /\ u.elem}}

\* C39: every put-processes pass hands to retain-values on the Processes
\* container exactly the key of the current process, so that after the pass
\* the container holds the current process and no process that an earlier
\* pass recorded under another id.
C39_OnlyCurrentProcess ==
    ProcessesPass
        => LET key == PROCESS_KEY_PATTERN(hist[Len(hist)].host.pid)
           IN  /\ Cardinality(CallsOn("retain_values", PROCESSES_PATH)) = 1
               /\ \A i \in CallsOn("retain_values", PROCESSES_PATH) :
                     /\ LastCalls[i].keys = <<key>>
                     /\ i = Len(LastCalls)
               /\ ElementKeys(PROCESSES_PATH) = {key}

\* A pass after the process was launched again removed the process that the
\* pass before it had recorded.
C39_Witness ==
    /\ TwoPasses
    /\ ProcessesPass
    /\ hist[1].host.pid # hist[2].host.pid
    /\ [obj |-> PROCESSES_PATH, key |-> PROCESS_KEY_PATTERN(hist[1].host.pid),
        val |-> PROCESS_PATTERN(hist[1].host.pid), elem |-> TRUE]
          \in hist[2].removed

----------------------------------------------------------------------------
(* Claims about the end of wait-stopped *)

\* A run of wait-stopped with well-formed arguments and a process, which has
\* ended.
WaitEnded ==
    /\ arg.fn = "wait_stopped"
    /\ ret.done
    /\ ~ret.polling
    /\ arg.p0 # "None"
    /\ arg.args = <<>> \/ (Len(arg.args) = 1 /\ int(arg.args[1]).err = <<>>)

\* C40: wait-stopped reports the timeout only if the process is still
\* running at the last poll it made; when a poll observes the process not
\* running the command ends successfully at that poll, even if more than the
\* timeout has elapsed by then.
C40_TimeoutOnlyIfRunning ==
    WaitEnded
        => /\ ret.err = <<"Timed out waiting for thread to stop">>
                 => ObservedAt(ret.polls) = "eStateRunning"
           /\ \A i \in 0..Len(arg.polls) :
                 (/\ ObservedAt(i) # "eStateRunning"
                  /\ \A j \in 0..(i - 1) : ObservedAt(j) = "eStateRunning"
                  /\ \A j \in LatePolls : i <= j)
                     => ret.err = <<>> /\ ret.polls = i

====
